---- MODULE Spec2Model ----
(***************************************************************************)
(* Agent / voice catalogue of trudy-backend: the local store, the remote   *)
(* provider mirror and the idempotency cache, driven by the HTTP handlers  *)
(* of app/api/v1.  Every handler is a process in a request slot; a step is *)
(* the code between two suspension points (await).                         *)
(*                                                                         *)
(* The tenant partition column (client_id in the legacy handlers,          *)
(* clerk_org_id in the organisation-first handlers) is one column here.    *)
(* Local store calls (DatabaseService) are synchronous and succeed.        *)
(***************************************************************************)
EXTENDS Integers, FiniteSets, Sequences, TLC

\* ---------------------------------------------------------------- bounds
MaxAgents == 2      \* agent ids (uuid4) handed out
MaxVoices == 1      \* voice ids (uuid4) handed out
MaxRemote == 2      \* agent ids the provider hands out
MaxReq    == 2      \* requests in flight together

Tenants   == {"tA", "tB"}
Keys      == {"none", "k1"}          \* X-Idempotency-Key header; "none" = absent
AgentIds  == 1 .. MaxAgents
VoiceIds  == 1 .. MaxVoices
Reqs      == 1 .. MaxReq
None      == 0                        \* Python None for ids
Outcomes  == {"ok", "noid", "fail"}   \* provider: 2xx with id, 2xx without id, error
CallOutcomes == Outcomes \cup {"timeout"}   \* and no answer within the client's timeout

VARIABLES
    agents,      \* table agents: AgentIds -> row (NoAgent when absent)
    voices,      \* table voices: VoiceIds -> row (NoVoice when absent)
    remote,      \* agents that exist at the provider (set of RemoteIds)
    idem,        \* idempotency store: tenant -> key -> record
    nextAgent, nextVoice, nextRemote,   \* fresh-id generators
    reqs         \* request slots

\* the prompt suggestions of the AI assistance (services/ai_assistance.py)
VARIABLES
    messages,       \* table agent_assistance_messages: message id -> row
    system_prompt,  \* agents.system_prompt of the agent the sessions belong to
    prompt_log      \* history: the suggestions that were written to system_prompt

\* the Clerk signing keys (core/auth.py) and the wall clock (time.time())
VARIABLES
    clerk_jwks_cache,         \* _clerk_jwks_cache: the key set kept in the process
    clerk_jwks_cache_expiry,  \* _clerk_jwks_cache_expiry
    clerk_keys,               \* the key set Clerk publishes at the JWKS url
    now                       \* time.time()

\* the users of the organisations (core/auth.py)
VARIABLES
    users,          \* table users: clerk_user_id -> row
    promoted        \* history: the users the first-user rule made client_admin

\* the contacts (api/v1/contacts)
VARIABLES
    contact_folders,   \* table contact_folders: folder id -> row
    contacts           \* table contacts: the rows, each with its folder_id

\* the file endpoint (api/v1/files.py)
VARIABLES
    issued,         \* the signatures handed out in presigned urls
    files,          \* the local storage: the (bucket, key) that hold a file
    served          \* history: the downloads served, with what they presented

store == <<agents, voices, remote, idem, nextAgent, nextVoice, nextRemote>>
ext   == <<messages, system_prompt, prompt_log, clerk_jwks_cache,
           clerk_jwks_cache_expiry, clerk_keys, now, users, promoted, contact_folders,
           contacts, issued, files, served>>
vars  == <<agents, voices, remote, idem, nextAgent, nextVoice, nextRemote, reqs,
           messages, system_prompt, prompt_log,
           clerk_jwks_cache, clerk_jwks_cache_expiry, clerk_keys, now,
           users, promoted, contact_folders, contacts, issued, files, served>>

\* ----------------------------------------------- bounds of the other tables
MaxMessages == 2    \* assistant messages of the agent's sessions
MaxTicks    == 4    \* steps of the wall clock
MaxFolders  == 1    \* contact folders
MaxContacts == 2    \* contact rows
MaxIssued   == 2    \* presigned urls handed out

MessageIds == 1 .. MaxMessages

\* add_message: approval_state is "pending" when the message carries a
\* suggested_prompt_change and None ("none") when it does not
Message(suggested) ==
    [suggested_prompt_change |-> suggested,
     approval_state |-> IF suggested THEN "pending" ELSE "none"]

NoAgent == [tenant |-> "none", status |-> "none", remote |-> None, voice |-> None]
NoVoice == [tenant |-> "none", status |-> "none", remote |-> None, name |-> 0]
NoData  == [id |-> None, status |-> "none", remote |-> None]
NoResp  == [kind |-> "none", code |-> 0, data |-> NoData]
NoIdem  == [fp |-> 0, code |-> 0, data |-> NoData]

\* A request slot.  seen/stored/inserts/rcalls/rout/rid record what the request
\* observed and did, for the properties below.
\* role/explicit are the caller's role and X-Client-Id header, rows is what a
\* list returned, bare counts the store writes filtered by row id alone,
\* elevenlabs_voice_id is the voice ElevenLabs made for a voice create request,
\* user is the clerk_user_id of the token a role is being determined for.
IdleReq == [pc |-> "idle", op |-> "none", tenant |-> "none", key |-> "none",
            voice |-> None, id |-> None, mode |-> "none", seen |-> "none",
            stored |-> FALSE, inserts |-> 0, rcalls |-> 0, rout |-> "none",
            rid |-> None, resp |-> NoResp,
            role |-> "none", explicit |-> "none", rows |-> {}, bare |-> 0,
            elevenlabs_voice_id |-> None, user |-> "none"]

\* ------------------------------------------------------ local store calls
\* db.select_one(table, {"id": id, <tenant column>: t})
SelectOne(tbl, id, t, none) == IF id # None /\ tbl[id].tenant = t THEN tbl[id] ELSE none

\* db.insert(table, record)
Insert(tbl, id, row) == [tbl EXCEPT ![id] = row]

\* db.update(table, {"id": id, <tenant column>: t}, {"status": s})
UpdateStatus(tbl, id, t, s) ==
    IF tbl[id].tenant = t THEN [tbl EXCEPT ![id].status = s] ELSE tbl

\* db.update(table, {...}, {"ultravox_agent_id": R, "status": "active"})
UpdateRemoteActive(tbl, id, t, R) ==
    IF tbl[id].tenant = t
    THEN [tbl EXCEPT ![id].remote = R, ![id].status = "active"] ELSE tbl

\* db.update(table, {...}, update_data) with the voice_id field when supplied
UpdateVoice(tbl, id, t, v) ==
    IF tbl[id].tenant = t /\ v # None THEN [tbl EXCEPT ![id].voice = v] ELSE tbl

\* db.delete(table, {"id": id, <tenant column>: t})
Delete(tbl, id, t, none) == IF tbl[id].tenant = t THEN [tbl EXCEPT ![id] = none] ELSE tbl

\* the row after db.update wrote the columns of update_data
ApplyUpdate(row, update_data) ==
    [f \in DOMAIN row |-> IF f \in DOMAIN update_data THEN update_data[f] ELSE row[f]]

\* db.update(table, {"id": id}, update_data): the filter is the row id alone
UpdateById(tbl, id, none, update_data) ==
    IF tbl[id] = none THEN tbl ELSE [tbl EXCEPT ![id] = ApplyUpdate(@, update_data)]

\* db.select(table, {<tenant column>: t}): the ids of the rows returned
Select(tbl, t) == {id \in DOMAIN tbl : tbl[id].tenant = t}

\* The "data" of a response: the row as re-read (None when the row is missing)
Data(id, row) == IF row.tenant = "none" THEN NoData
                 ELSE [id |-> id, status |-> row.status, remote |-> row.remote]

\* ------------------------------------------------------ idempotency store
\* content hash of the request body (the body is the voice reference here)
Fingerprint(v) == (7 * v + 3) % 11

\* check_idempotency_key: "absent" -> None, "equal" -> cached response,
\* "different" -> IdempotencyConflictError
IdemLookup(t, k, v) ==
    IF k = "none" \/ idem[t][k] = NoIdem THEN "absent"
    ELSE IF idem[t][k].fp = Fingerprint(v) THEN "equal" ELSE "different"

\* store_idempotency_response: a record, once stored, is immutable
IdemStore(t, k, v, data, code) ==
    IF idem[t][k] = NoIdem
    THEN [idem EXCEPT ![t][k] = [fp |-> Fingerprint(v), code |-> code, data |-> data]]
    ELSE idem

\* ------------------------------------------------------------ eligibility
\* validate_agent_for_ultravox_sync: the voice reference must exist and be owned
\* by the same tenant
ValidationReason(v, t) ==
    IF v = None THEN "voice_required"
    ELSE IF v \notin VoiceIds \/ voices[v].tenant # t THEN "voice_invalid"
    ELSE "ok"

CanSync(v, t) == ValidationReason(v, t) = "ok"

\* ------------------------------------------------------------------ HTTP
DefaultStatus == 200     \* a route declared without status_code
CachedStatus  == 201     \* the status code the create handlers store

Ok(data)      == [kind |-> "ok", code |-> DefaultStatus, data |-> data]
Replay(rec)   == [kind |-> "ok", code |-> rec.code, data |-> rec.data]
Err(kind)     == [kind |-> kind, code |-> 0, data |-> NoData]

\* ------------------------------------------------- identity (core/auth.py)
\* A verified token with what the users table holds for its subject: the org
\* claim ("" when the token has none), the Clerk org role, the users row
\* (NoUser when there is none; client_id "" is a NULL column) and whether the
\* organisation already has another admin.
NoUser == [role |-> "none", client_id |-> ""]
UserIds == {"u1", "u2"}
Principals ==
    [user_id : UserIds, org_id : Tenants \cup {""},
     org_role : {"org:admin", "org:member"},
     user_data : {NoUser} \cup [role : {"client_admin", "client_user"},
                                client_id : Tenants \cup {""}],
     other_admins : BOOLEAN]

\* _effective_org_id: the org claim, else the user id (personal workspace)
verify_clerk_jwt(p) == IF p.org_id # "" THEN p.org_id ELSE p.user_id

\* the role of the caller; the role written back to the users table is the
\* role returned, and the table is not part of the state
ensure_admin_role_for_creator(p) ==
    IF p.org_role = "org:admin" THEN "client_admin"
    ELSE IF p.user_data = NoUser THEN "client_user"
    ELSE IF p.user_data.role = "client_admin" THEN "client_admin"
    ELSE IF p.other_admins THEN p.user_data.role
    ELSE "client_admin"

\* the dependency every handler receives as current_user; the X-Client-Id
\* header is a parameter of it and of every handler, and is read by none
get_current_user(p, x_client_id) ==
    [clerk_org_id |-> verify_clerk_jwt(p),
     client_id    |-> p.user_data.client_id,
     role         |-> ensure_admin_role_for_creator(p)]

AdminRoles == {"client_admin", "agency_admin"}

\* core/permissions.py
require_admin_role(current_user) == current_user.role \in AdminRoles

\* A caller: the token and the X-Client-Id header of one request
User(c) == get_current_user(c.token, c.x_client_id)

\* an organisation admin known to the users table, sending no header
OrgAdmin(t) ==
    [token |-> [user_id |-> "u1", org_id |-> t, org_role |-> "org:admin",
                user_data |-> [role |-> "client_admin", client_id |-> t],
                other_admins |-> FALSE],
     x_client_id |-> ""]

\* a member of the organisation that already has an admin
OrgMember(t) ==
    [token |-> [user_id |-> "u2", org_id |-> t, org_role |-> "org:member",
                user_data |-> [role |-> "client_user", client_id |-> t],
                other_admins |-> TRUE],
     x_client_id |-> ""]

\* the request slot of a handler that has just been entered by caller c
Entered(c, op) == [IdleReq EXCEPT !.op = op, !.role = User(c).role,
                                  !.explicit = c.x_client_id]

\* raise ForbiddenError("Insufficient permissions") on entry
Forbidden(r, c, op, t) ==
    /\ reqs' = [reqs EXCEPT ![r] = [Entered(c, op) EXCEPT !.tenant = t, !.pc = "done",
                                       !.resp = Err("ForbiddenError")]]
    /\ UNCHANGED <<agents, voices, remote, idem, nextAgent, nextVoice, nextRemote>>
    /\ UNCHANGED ext

\* raise ValidationError("Missing organization ID in token") on entry
MissingOrganization(r, c, op) ==
    /\ reqs' = [reqs EXCEPT ![r] = [Entered(c, op) EXCEPT !.tenant = "", !.pc = "done",
                                       !.resp = Err("ValidationError")]]
    /\ UNCHANGED <<agents, voices, remote, idem, nextAgent, nextVoice, nextRemote>>
    /\ UNCHANGED ext

\* ------------------------------------------ the tables outside the catalogue
\* the JWKS cache lives for an hour (auth.py: time.time() + 3600); the clock
\* moves in steps of half an hour
CacheTtl == 3600
Times    == {t * 1800 : t \in 0 .. MaxTicks}

\* a JWKS document {"keys": [...]} is the set of its key ids; the module
\* global starts as None
NoJwks   == [present |-> FALSE, keys |-> {}]
Jwks(ks) == [present |-> TRUE, keys |-> ks]

\* contact_folders and contacts rows; ids are uuid4
FolderIds  == 1 .. MaxFolders
ContactIds == 1 .. MaxContacts
NoContact  == [client_id |-> "none", folder_id |-> None]

\* the keys of the files endpoint; its bucket types are uploads and recordings
FileKeys   == {"f1", "f2"}

\* no key set is cached, both users are plain members of organisation tA,
\* which has one empty folder, and the storage holds one file
InitBeside ==
    /\ clerk_jwks_cache = NoJwks
    /\ clerk_jwks_cache_expiry = None
    /\ clerk_keys = {1}
    /\ now = 0
    /\ users = [u \in UserIds |-> [role |-> "client_user", client_id |-> "tA"]]
    /\ promoted = {}
    /\ contact_folders = [f \in FolderIds |-> [client_id |-> "tA"]]
    /\ contacts = [k \in ContactIds |-> NoContact]
    /\ issued = {}
    /\ files = {<<"uploads", "f1">>}
    /\ served = {}

\* the state the catalogue handlers never touch: every message carries a
\* suggestion, the agent has the prompt it was created with
InitExt ==
    /\ messages = [m \in MessageIds |-> Message(TRUE)]
    /\ system_prompt = None
    /\ prompt_log = {}
    /\ InitBeside

Init ==
    /\ agents = [a \in AgentIds |-> NoAgent]
    /\ voices = [v \in VoiceIds |-> NoVoice]
    /\ remote = {}
    /\ idem = [t \in Tenants |-> [k \in Keys \ {"none"} |-> NoIdem]]
    /\ nextAgent = 1
    /\ nextVoice = 1
    /\ nextRemote = 1
    /\ reqs = [r \in Reqs |-> IdleReq]
    /\ InitExt

\* a new request takes the lowest free slot
Free(r) == reqs[r].pc = "idle" /\ \A q \in Reqs : q < r => reqs[q].pc # "idle"

\* the response has been sent; the slot is free again
Retire(r) ==
    /\ reqs[r].pc = "done"
    /\ reqs' = [reqs EXCEPT ![r] = IdleReq]
    /\ UNCHANGED <<agents, voices, remote, idem, nextAgent, nextVoice, nextRemote>>
    /\ UNCHANGED ext


\* ====================================================== voices (voices.py)
Placeholder == -1      \* a voice_id that names no voice row

VoiceRow(t, id) == [tenant |-> t, status |-> "active", remote |-> id, name |-> 0]

\* POST /voices, up to the first provider call
create_voice(r, c, strategy) ==
    /\ Free(r)
    /\ LET t == User(c).client_id
       IN IF ~require_admin_role(User(c)) THEN Forbidden(r, c, "create_voice", t)
          ELSE
              /\ nextVoice <= MaxVoices
              /\ reqs' = [reqs EXCEPT ![r] =
                            [Entered(c, "create_voice") EXCEPT !.tenant = t, !.id = nextVoice,
                                            !.mode = strategy,
                                            !.pc = IF strategy = "native" THEN "await_clone"
                                                                          ELSE "await_import"]]
              /\ nextVoice' = nextVoice + 1
              /\ UNCHANGED <<agents, voices, remote, idem, nextAgent, nextRemote>>
    /\ UNCHANGED ext

\* the ElevenLabs clone call of the native strategy returns
create_voice_elevenlabs(r, o) ==
    /\ reqs[r].pc = "await_clone" /\ reqs[r].op = "create_voice"
    /\ reqs' = [reqs EXCEPT ![r] =
                  IF o = "ok" THEN [@ EXCEPT !.pc = "await_import", !.elevenlabs_voice_id = 1]
                  ELSE [@ EXCEPT !.pc = "done", !.rout = o, !.resp = Err("ProviderError")]]
    /\ UNCHANGED <<agents, voices, remote, idem, nextAgent, nextVoice, nextRemote>>
    /\ UNCHANGED ext

\* create_voice_ultravox with the row written before the import call and left
\* in place when the call fails
create_voice_ultravox_keep(r, o) ==
    /\ reqs[r].pc = "await_import" /\ reqs[r].op = "create_voice"
    /\ LET id  == reqs[r].id
           row == VoiceRow(reqs[r].tenant, id)
       IN /\ voices' = Insert(voices, id, row)
          /\ reqs' = [reqs EXCEPT ![r] =
                IF o = "ok"
                THEN [@ EXCEPT !.pc = "done", !.rout = o, !.inserts = @ + 1,
                               !.resp = Ok(Data(id, row))]
                ELSE [@ EXCEPT !.pc = "done", !.rout = o, !.resp = Err("ProviderError")]]
    /\ UNCHANGED <<agents, remote, idem, nextAgent, nextVoice, nextRemote>>
    /\ UNCHANGED ext

\* the Ultravox import call returns; the row is written only after it succeeded
create_voice_ultravox(r, o) ==
    /\ reqs[r].pc = "await_import" /\ reqs[r].op = "create_voice"
    /\ LET id  == reqs[r].id
           row == VoiceRow(reqs[r].tenant, id)
       IN IF o = "ok"
          THEN /\ voices' = Insert(voices, id, row)
               /\ reqs' = [reqs EXCEPT ![r] = [@ EXCEPT !.pc = "done", !.rout = o,
                               !.inserts = @ + 1, !.resp = Ok(Data(id, row))]]
          ELSE /\ voices' = voices
               /\ reqs' = [reqs EXCEPT ![r] = [@ EXCEPT !.pc = "done", !.rout = o,
                               !.resp = Err("ProviderError")]]
    /\ UNCHANGED <<agents, remote, idem, nextAgent, nextVoice, nextRemote>>
    /\ UNCHANGED ext

\* ================================================ voices (voice_clone.py)
\* POST /voice-clone, up to the ElevenLabs call
create_voice_clone(r, c) ==
    /\ Free(r)
    /\ LET t == User(c).clerk_org_id
       IN IF ~require_admin_role(User(c)) THEN Forbidden(r, c, "voice_clone", t)
          ELSE IF t = "" THEN MissingOrganization(r, c, "voice_clone")
          ELSE
              /\ nextVoice <= MaxVoices
              /\ reqs' = [reqs EXCEPT ![r] =
                            [Entered(c, "voice_clone") EXCEPT !.tenant = t, !.pc = "await_clone"]]
              /\ UNCHANGED <<agents, voices, remote, idem, nextAgent, nextVoice,
                             nextRemote>>
    /\ UNCHANGED ext

\* clone_to_elevenlabs returns: a status >= 400 and a missing voice_id raise
\* ProviderError, the timeout of client.post is raised as httpx raises it
clone_to_elevenlabs(r, o) ==
    /\ reqs[r].pc = "await_clone" /\ reqs[r].op = "voice_clone"
    /\ reqs' = [reqs EXCEPT ![r] =
                  IF o = "ok" THEN [@ EXCEPT !.pc = "await_import", !.elevenlabs_voice_id = 1]
                  ELSE [@ EXCEPT !.pc = "done", !.rout = o,
                                 !.resp = IF o = "timeout" THEN Err("TimeoutException")
                                          ELSE Err("ProviderError")]]
    /\ UNCHANGED <<agents, voices, remote, idem, nextAgent, nextVoice, nextRemote>>
    /\ UNCHANGED ext

\* import_voice_from_provider returns; uuid4 and insert follow a success
create_voice_clone_import(r, o) ==
    /\ reqs[r].pc = "await_import" /\ reqs[r].op = "voice_clone"
    /\ IF o = "ok" /\ nextVoice <= MaxVoices
       THEN LET id  == nextVoice
                row == VoiceRow(reqs[r].tenant, id)
            IN /\ voices' = Insert(voices, id, row)
               /\ nextVoice' = nextVoice + 1
               /\ reqs' = [reqs EXCEPT ![r] = [@ EXCEPT !.pc = "done", !.rout = "ok", !.id = id,
                               !.inserts = @ + 1, !.resp = Ok(Data(id, row))]]
       ELSE /\ o # "ok"
            /\ UNCHANGED <<voices, nextVoice>>
            /\ reqs' = [reqs EXCEPT ![r] = [@ EXCEPT !.pc = "done", !.rout = o,
                            !.resp = Err("ProviderError")]]
    /\ UNCHANGED <<agents, remote, idem, nextAgent, nextRemote>>
    /\ UNCHANGED ext

\* GET /voices?source=custom: the rows of the caller's client_id
list_voices(r, c) ==
    /\ Free(r)
    /\ LET t == User(c).client_id
       IN reqs' = [reqs EXCEPT ![r] =
                     [Entered(c, "list_voices") EXCEPT !.tenant = t, !.pc = "done",
                                     !.rows = Select(voices, t), !.resp = Ok(NoData)]]
    /\ UNCHANGED <<agents, voices, remote, idem, nextAgent, nextVoice, nextRemote>>
    /\ UNCHANGED ext

\* a PATCH body: "name" 1 is a new name, "tenant" is the tenant column as the
\* client may send it; either key may be missing
VoiceBodies ==
    {[name |-> 1]} \cup [tenant : Tenants] \cup [name : {1}, tenant : Tenants]

\* the tenant column a body asks for ("none" when it has no such key)
Sent(body) == IF "tenant" \in DOMAIN body THEN body.tenant ELSE "none"

\* update_data = {k: v for k, v in body.items() if k in ["name", "description"]}
VoiceUpdateData(body) == [k \in DOMAIN body \cap {"name", "description"} |-> body[k]]

\* PATCH /voices/{voice_id}, up to the read of the request body
update_voice(r, c, v) ==
    /\ Free(r)
    /\ LET t   == User(c).client_id
           row == SelectOne(voices, v, t, NoVoice)
       IN reqs' = [reqs EXCEPT ![r] =
                     IF ~require_admin_role(User(c))
                     THEN [Entered(c, "update_voice") EXCEPT !.tenant = t, !.pc = "done",
                                     !.resp = Err("ForbiddenError")]
                     ELSE IF row = NoVoice
                     THEN [Entered(c, "update_voice") EXCEPT !.tenant = t, !.id = v,
                                     !.pc = "done", !.resp = Err("NotFoundError")]
                     ELSE [Entered(c, "update_voice") EXCEPT !.tenant = t, !.id = v,
                                     !.pc = "await_body", !.resp = Ok(Data(v, row))]]
    /\ UNCHANGED <<agents, voices, remote, idem, nextAgent, nextVoice, nextRemote>>
    /\ UNCHANGED ext

\* update_voice_body with every key of the body copied into update_data
update_voice_body_unfiltered(r, body) ==
    /\ reqs[r].pc = "await_body" /\ reqs[r].op = "update_voice"
    /\ LET v == reqs[r].id
           t == reqs[r].tenant
       IN /\ voices' = UpdateById(voices, v, NoVoice, body)
          /\ LET row == SelectOne(voices', v, t, NoVoice)
             IN reqs' = [reqs EXCEPT ![r] =
                           [@ EXCEPT !.pc = "done", !.bare = @ + 1, !.mode = Sent(body),
                                     !.resp = IF row = NoVoice THEN Err("TypeError")
                                              ELSE Ok(Data(v, row))]]
    /\ UNCHANGED <<agents, remote, idem, nextAgent, nextVoice, nextRemote>>
    /\ UNCHANGED ext

\* the body has arrived: write the name, re-read the row
update_voice_body(r, body) ==
    /\ reqs[r].pc = "await_body" /\ reqs[r].op = "update_voice"
    /\ LET v           == reqs[r].id
           t           == reqs[r].tenant
           update_data == VoiceUpdateData(body)
       IN IF DOMAIN update_data = {}
          THEN /\ reqs' = [reqs EXCEPT ![r] = [@ EXCEPT !.pc = "done", !.mode = Sent(body)]]
               /\ UNCHANGED voices
          ELSE /\ voices' = UpdateById(voices, v, NoVoice, update_data)
               /\ LET row == SelectOne(voices', v, t, NoVoice)
                  IN reqs' = [reqs EXCEPT ![r] =
                                [@ EXCEPT !.pc = "done", !.bare = @ + 1,
                                          !.mode = Sent(body),
                                          !.resp = IF row = NoVoice THEN Err("TypeError")
                                                   ELSE Ok(Data(v, row))]]
    /\ UNCHANGED <<agents, remote, idem, nextAgent, nextVoice, nextRemote>>
    /\ UNCHANGED ext

\* GET /voices/{voice_id}
get_voice(r, c, v) ==
    /\ Free(r)
    /\ LET t == User(c).client_id
       IN
              /\ LET row == SelectOne(voices, v, t, NoVoice)
                 IN reqs' = [reqs EXCEPT ![r] =
                               [Entered(c, "get_voice") EXCEPT !.tenant = t, !.id = v, !.pc = "done",
                                               !.resp = IF row = NoVoice THEN Err("NotFoundError")
                                                        ELSE Ok(Data(v, row))]]
              /\ UNCHANGED <<agents, voices, remote, idem, nextAgent, nextVoice,
                             nextRemote>>
    /\ UNCHANGED ext

\* DELETE /voices/{voice_id}
delete_voice(r, c, v) ==
    /\ Free(r)
    /\ LET t == User(c).client_id
       IN IF ~require_admin_role(User(c)) THEN Forbidden(r, c, "delete_voice", t)
          ELSE
              /\ LET row == SelectOne(voices, v, t, NoVoice)
                 IN /\ voices' = IF row = NoVoice THEN voices ELSE Delete(voices, v, t, NoVoice)
                    /\ reqs' = [reqs EXCEPT ![r] =
                               [Entered(c, "delete_voice") EXCEPT !.tenant = t, !.id = v,
                                               !.pc = "done",
                                               !.resp = IF row = NoVoice THEN Err("NotFoundError")
                                                        ELSE Ok([id |-> v, status |-> "deleted",
                                                                 remote |-> None])]]
              /\ UNCHANGED <<agents, remote, idem, nextAgent, nextVoice, nextRemote>>
    /\ UNCHANGED ext


\* ============================================ agents: the provider gateway
AgentRow(t, st, R, v) == [tenant |-> t, status |-> st, remote |-> R, voice |-> v]

\* sync_agent_to_ultravox(agent_id, tenant), before its provider call: the row is
\* read; a row without a remote id is created at the provider, one with a remote
\* id is updated there
SyncMode(id, t) ==
    LET row == SelectOne(agents, id, t, NoAgent)
    IN IF row = NoAgent THEN "missing"
       ELSE IF ~CanSync(row.voice, t) THEN "ineligible"
       ELSE IF row.remote # None THEN "update" ELSE "create"

\* the provider can answer "ok" to a create while it has ids left, and to an
\* update or delete of an agent it still has
CanAnswer(r, o) ==
    o = "ok" => IF reqs[r].mode = "create" THEN nextRemote <= MaxRemote
                ELSE reqs[r].rid \in remote

\* the provider's state after the call of request r ended with outcome o
RemoteAfter(r, o) ==
    IF o # "ok" THEN remote
    ELSE IF reqs[r].mode = "create" THEN remote \cup {nextRemote}
    ELSE IF reqs[r].mode = "delete" THEN remote \ {reqs[r].rid}
    ELSE remote

NextRemoteAfter(r, o) ==
    IF o = "ok" /\ reqs[r].mode = "create" THEN nextRemote + 1 ELSE nextRemote

\* the "agentId" of the provider's response
AgentIdOf(r, o) ==
    IF o # "ok" THEN None
    ELSE IF reqs[r].mode = "create" THEN nextRemote ELSE reqs[r].rid

\* ================================================ agents/create.py (POST /)
\* except (ValidationError, ForbiddenError, ProviderError): raise
\* except Exception: raise ValidationError
CreateError(kind) ==
    IF kind \in {"ValidationError", "ForbiddenError", "ProviderError"} THEN kind
    ELSE "ValidationError"

\* create_agent_check with the cached response ignored: the request is run again
create_agent_check_rerun(r, c, k, v) ==
    /\ Free(r)
    /\ LET t == User(c).clerk_org_id
       IN IF t = "" THEN MissingOrganization(r, c, "create")
          ELSE
              /\ LET seen == IdemLookup(t, k, v)
                     base == [Entered(c, "create") EXCEPT !.tenant = t, !.key = k,
                                             !.voice = v, !.seen = seen]
                 IN IF seen = "different"
                    THEN /\ reqs' = [reqs EXCEPT ![r] =
                                        [base EXCEPT !.pc = "done",
                                            !.resp = Err(CreateError("IdempotencyConflictError"))]]
                         /\ UNCHANGED nextAgent
                    ELSE /\ nextAgent <= MaxAgents
                         /\ reqs' = [reqs EXCEPT ![r] =
                                        [base EXCEPT !.pc = "validate", !.id = nextAgent]]
                         /\ nextAgent' = nextAgent + 1
              /\ UNCHANGED <<agents, voices, remote, idem, nextVoice, nextRemote>>
    /\ UNCHANGED ext

\* create_agent_check with the idempotency store never consulted
create_agent_check_nocache(r, c, k, v) ==
    /\ Free(r)
    /\ LET t == User(c).clerk_org_id
       IN IF t = "" THEN MissingOrganization(r, c, "create")
          ELSE
              /\ nextAgent <= MaxAgents
              /\ reqs' = [reqs EXCEPT ![r] =
                            [Entered(c, "create") EXCEPT !.tenant = t, !.key = k, !.voice = v,
                                            !.seen = "absent", !.pc = "validate", !.id = nextAgent]]
              /\ nextAgent' = nextAgent + 1
              /\ UNCHANGED <<agents, voices, remote, idem, nextVoice, nextRemote>>
    /\ UNCHANGED ext

\* the idempotency check: a cached response is replayed and nothing else runs
create_agent_check(r, c, k, v) ==
    /\ Free(r)
    /\ LET t == User(c).clerk_org_id
       IN IF t = "" THEN MissingOrganization(r, c, "create")
          ELSE
              /\ LET seen == IdemLookup(t, k, v)
                     base == [Entered(c, "create") EXCEPT !.tenant = t, !.key = k,
                                             !.voice = v, !.seen = seen]
                 IN IF seen = "equal"
                    THEN /\ reqs' = [reqs EXCEPT ![r] =
                                        [base EXCEPT !.pc = "done", !.resp = Replay(idem[t][k])]]
                         /\ UNCHANGED nextAgent
                    ELSE IF seen = "different"
                    THEN /\ reqs' = [reqs EXCEPT ![r] =
                                        [base EXCEPT !.pc = "done",
                                            !.resp = Err(CreateError("IdempotencyConflictError"))]]
                         /\ UNCHANGED nextAgent
                    ELSE /\ nextAgent <= MaxAgents
                         /\ reqs' = [reqs EXCEPT ![r] =
                                        [base EXCEPT !.pc = "validate", !.id = nextAgent]]
                         /\ nextAgent' = nextAgent + 1
              /\ UNCHANGED <<agents, voices, remote, idem, nextVoice, nextRemote>>
    /\ UNCHANGED ext

\* validation, then the insert with status creating, then the provider call
create_agent_validate(r) ==
    /\ reqs[r].pc = "validate" /\ reqs[r].op = "create"
    /\ LET t == reqs[r].tenant
           id == reqs[r].id
       IN IF ~CanSync(reqs[r].voice, t)
          THEN /\ reqs' = [reqs EXCEPT ![r] =
                              [@ EXCEPT !.pc = "done", !.resp = Err("ValidationError")]]
               /\ UNCHANGED agents
          ELSE /\ agents' = Insert(agents, id, AgentRow(t, "creating", None, reqs[r].voice))
               /\ reqs' = [reqs EXCEPT ![r] =
                              [@ EXCEPT !.pc = "await_create", !.mode = "create",
                                        !.inserts = @ + 1, !.rcalls = @ + 1]]
    /\ UNCHANGED <<voices, remote, idem, nextAgent, nextVoice, nextRemote>>
    /\ UNCHANGED ext

\* create_agent_ultravox_first returns: commit, or degrade to draft; re-read
create_agent_remote(r, o) ==
    /\ reqs[r].pc = "await_create" /\ reqs[r].op = "create"
    /\ CanAnswer(r, o)
    /\ LET t   == reqs[r].tenant
           id  == reqs[r].id
           R   == AgentIdOf(r, o)
           ag1 == IF R # None THEN UpdateRemoteActive(agents, id, t, R)
                  ELSE UpdateStatus(agents, id, t, "draft")
           row == SelectOne(ag1, id, t, NoAgent)
       IN /\ agents' = ag1
          /\ reqs' = [reqs EXCEPT ![r] =
                IF R = None
                THEN [@ EXCEPT !.pc = "done", !.rout = o, !.resp = Err("ProviderError")]
                ELSE IF row = NoAgent
                THEN [@ EXCEPT !.pc = "done", !.rout = o, !.rid = R,
                               !.resp = Err("ValidationError")]
                ELSE [@ EXCEPT !.pc = IF reqs[r].key = "none" THEN "done" ELSE "store",
                               !.rout = o, !.rid = R, !.resp = Ok(Data(id, row))]]
    /\ remote' = RemoteAfter(r, o)
    /\ nextRemote' = NextRemoteAfter(r, o)
    /\ UNCHANGED <<voices, idem, nextAgent, nextVoice>>
    /\ UNCHANGED ext

\* the request is cancelled while it awaits create_agent_ultravox_first:
\* CancelledError is no Exception, so the except clause that degrades the row
\* does not run; the provider has created the agent (o = "ok") or has not
create_agent_cancelled(r, o) ==
    /\ reqs[r].pc = "await_create" /\ reqs[r].op = "create"
    /\ o \in {"ok", "fail"}
    /\ CanAnswer(r, o)
    /\ reqs' = [reqs EXCEPT ![r] =
                  [@ EXCEPT !.pc = "done", !.rout = "cancelled", !.resp = Err("CancelledError")]]
    /\ remote' = RemoteAfter(r, o)
    /\ nextRemote' = NextRemoteAfter(r, o)
    /\ UNCHANGED <<agents, voices, idem, nextAgent, nextVoice>>
    /\ UNCHANGED ext

\* store_idempotency_response(..., response_data, 201), then return response_data
create_agent_store(r) ==
    /\ reqs[r].pc = "store" /\ reqs[r].op = "create"
    /\ idem' = IdemStore(reqs[r].tenant, reqs[r].key, reqs[r].voice,
                         reqs[r].resp.data, CachedStatus)
    /\ reqs' = [reqs EXCEPT ![r] =
                  [@ EXCEPT !.pc = "done",
                            !.stored = (idem[reqs[r].tenant][reqs[r].key] = NoIdem)]]
    /\ UNCHANGED <<agents, voices, remote, nextAgent, nextVoice, nextRemote>>
    /\ UNCHANGED ext

\* GET /agents: the rows of the caller's client_id
list_agents(r, c) ==
    /\ Free(r)
    /\ LET t == User(c).client_id
       IN reqs' = [reqs EXCEPT ![r] =
                     [Entered(c, "list") EXCEPT !.tenant = t, !.pc = "done",
                                     !.rows = Select(agents, t), !.resp = Ok(NoData)]]
    /\ UNCHANGED <<agents, voices, remote, idem, nextAgent, nextVoice, nextRemote>>
    /\ UNCHANGED ext

\* get_agent with the row selected by its id alone
get_agent_by_id(r, c, a) ==
    /\ Free(r)
    /\ LET t == User(c).client_id
       IN reqs' = [reqs EXCEPT ![r] =
                     [Entered(c, "get") EXCEPT !.tenant = t, !.id = a, !.pc = "done",
                                     !.resp = IF agents[a] = NoAgent THEN Err("NotFoundError")
                                              ELSE Ok(Data(a, agents[a]))]]
    /\ UNCHANGED <<agents, voices, remote, idem, nextAgent, nextVoice, nextRemote>>
    /\ UNCHANGED ext

\* GET /agents/{agent_id}
get_agent(r, c, a) ==
    /\ Free(r)
    /\ LET t == User(c).client_id
       IN
              /\ LET row == SelectOne(agents, a, t, NoAgent)
                 IN reqs' = [reqs EXCEPT ![r] =
                               [Entered(c, "get") EXCEPT !.tenant = t, !.id = a, !.pc = "done",
                                               !.resp = IF row = NoAgent THEN Err("NotFoundError")
                                                        ELSE Ok(Data(a, row))]]
              /\ UNCHANGED <<agents, voices, remote, idem, nextAgent, nextVoice,
                             nextRemote>>
    /\ UNCHANGED ext

\* ======================================== agents.py (legacy POST /agents)
\* except Exception: ValidationError, ForbiddenError and ProviderError pass,
\* everything else becomes ValidationError
LegacyCreateError(kind) ==
    IF kind \in {"ValidationError", "ForbiddenError", "ProviderError"} THEN kind
    ELSE "ValidationError"

\* the idempotency check, made before the try block
create_agent_legacy_check(r, c, k, v) ==
    /\ Free(r)
    /\ LET t == User(c).client_id
       IN IF ~require_admin_role(User(c)) THEN Forbidden(r, c, "create_legacy", t)
          ELSE
              /\ LET seen == IdemLookup(t, k, v)
                     base == [Entered(c, "create_legacy") EXCEPT !.tenant = t, !.key = k,
                                             !.voice = v, !.seen = seen]
                 IN IF seen = "equal"
                    THEN /\ reqs' = [reqs EXCEPT ![r] =
                                        [base EXCEPT !.pc = "done", !.resp = Replay(idem[t][k])]]
                         /\ UNCHANGED nextAgent
                    ELSE IF seen = "different"
                    THEN /\ reqs' = [reqs EXCEPT ![r] =
                                        [base EXCEPT !.pc = "done",
                                                     !.resp = Err("IdempotencyConflictError")]]
                         /\ UNCHANGED nextAgent
                    ELSE /\ nextAgent <= MaxAgents
                         /\ reqs' = [reqs EXCEPT ![r] =
                                        [base EXCEPT !.pc = "insert", !.id = nextAgent]]
                         /\ nextAgent' = nextAgent + 1
              /\ UNCHANGED <<agents, voices, remote, idem, nextVoice, nextRemote>>
    /\ UNCHANGED ext

\* the tail of the legacy create after the sync attempt: re-read, build the
\* response, go on to the idempotency store when a key was sent
LegacyCreateTail(r, ag1, o, R) ==
    LET row == SelectOne(ag1, reqs[r].id, reqs[r].tenant, NoAgent)
    IN [reqs[r] EXCEPT !.pc = IF reqs[r].key = "none" THEN "done" ELSE "store",
                       !.rout = o, !.rid = R, !.resp = Ok(Data(reqs[r].id, row))]

\* the insert with status creating, then sync_agent_to_ultravox up to its
\* provider call; an agent the service refuses is marked failed at once
create_agent_legacy_insert(r) ==
    /\ reqs[r].pc = "insert" /\ reqs[r].op = "create_legacy"
    /\ LET t   == reqs[r].tenant
           id  == reqs[r].id
           ag0 == Insert(agents, id, AgentRow(t, "creating", None, reqs[r].voice))
       IN IF reqs[r].voice = None
          THEN \* agent_dict["voice_id"] raises KeyError
               /\ reqs' = [reqs EXCEPT ![r] =
                              [@ EXCEPT !.pc = "done",
                                        !.resp = Err(LegacyCreateError("KeyError"))]]
               /\ UNCHANGED agents
          ELSE IF ~CanSync(reqs[r].voice, t)
          THEN /\ agents' = UpdateStatus(ag0, id, t, "failed")
               /\ reqs' = [reqs EXCEPT ![r] =
                              [LegacyCreateTail(r, agents', "none", None)
                                  EXCEPT !.inserts = @ + 1]]
          ELSE /\ agents' = ag0
               /\ reqs' = [reqs EXCEPT ![r] =
                              [@ EXCEPT !.pc = "await_sync", !.mode = "create",
                                        !.inserts = @ + 1, !.rcalls = @ + 1]]
    /\ UNCHANGED <<voices, remote, idem, nextAgent, nextVoice, nextRemote>>
    /\ UNCHANGED ext

\* sync_agent_to_ultravox returns: a success is logged, a failure marks the row
\* failed; then the tail
create_agent_legacy_sync(r, o) ==
    /\ reqs[r].pc = "await_sync" /\ reqs[r].op = "create_legacy"
    /\ CanAnswer(r, o)
    /\ LET R == AgentIdOf(r, o)
       IN /\ agents' = IF o = "ok" THEN agents
                       ELSE UpdateStatus(agents, reqs[r].id, reqs[r].tenant, "failed")
          /\ reqs' = [reqs EXCEPT ![r] = LegacyCreateTail(r, agents', o, R)]
    /\ remote' = RemoteAfter(r, o)
    /\ nextRemote' = NextRemoteAfter(r, o)
    /\ UNCHANGED <<voices, idem, nextAgent, nextVoice>>
    /\ UNCHANGED ext

\* the request is cancelled while it awaits sync_agent_to_ultravox: the except
\* clause that marks the row failed does not run for CancelledError
create_agent_legacy_cancelled(r, o) ==
    /\ reqs[r].pc = "await_sync" /\ reqs[r].op = "create_legacy"
    /\ o \in {"ok", "fail"}
    /\ CanAnswer(r, o)
    /\ reqs' = [reqs EXCEPT ![r] =
                  [@ EXCEPT !.pc = "done", !.rout = "cancelled", !.resp = Err("CancelledError")]]
    /\ remote' = RemoteAfter(r, o)
    /\ nextRemote' = NextRemoteAfter(r, o)
    /\ UNCHANGED <<agents, voices, idem, nextAgent, nextVoice>>
    /\ UNCHANGED ext

\* store_idempotency_response(..., response_data, 201), then return response_data
create_agent_legacy_store(r) ==
    /\ reqs[r].pc = "store" /\ reqs[r].op = "create_legacy"
    /\ idem' = IdemStore(reqs[r].tenant, reqs[r].key, reqs[r].voice,
                         reqs[r].resp.data, CachedStatus)
    /\ reqs' = [reqs EXCEPT ![r] =
                  [@ EXCEPT !.pc = "done",
                            !.stored = (idem[reqs[r].tenant][reqs[r].key] = NoIdem)]]
    /\ UNCHANGED <<agents, voices, remote, nextAgent, nextVoice, nextRemote>>
    /\ UNCHANGED ext

\* ================================== agents/create_draft.py (POST /draft)
\* the newest voice of the tenant, None when the tenant has none
DefaultVoice(t) ==
    LET own == {v \in VoiceIds : voices[v].tenant = t}
    IN IF own = {} THEN None ELSE CHOOSE v \in own : \A w \in own : w <= v

\* select the default voice and build the record
create_draft_agent(r, c) ==
    /\ Free(r)
    /\ LET t == User(c).clerk_org_id
       IN IF ~require_admin_role(User(c)) THEN Forbidden(r, c, "create_draft", t)
          ELSE IF t = "" THEN MissingOrganization(r, c, "create_draft")
          ELSE
              /\ nextAgent <= MaxAgents
              /\ reqs' = [reqs EXCEPT ![r] =
                            [Entered(c, "create_draft") EXCEPT !.tenant = t, !.pc = "validate",
                                            !.voice = DefaultVoice(t), !.id = nextAgent]]
              /\ nextAgent' = nextAgent + 1
              /\ UNCHANGED <<agents, voices, remote, idem, nextVoice, nextRemote>>
    /\ UNCHANGED ext

\* validation: an eligible agent goes to the provider first, one without a
\* voice is inserted as draft, any other refusal is an error
create_draft_agent_validate(r) ==
    /\ reqs[r].pc = "validate" /\ reqs[r].op = "create_draft"
    /\ LET t      == reqs[r].tenant
           id     == reqs[r].id
           reason == ValidationReason(reqs[r].voice, t)
           row    == AgentRow(t, "draft", None, None)
       IN IF reason = "ok"
          THEN /\ reqs' = [reqs EXCEPT ![r] =
                              [@ EXCEPT !.pc = "await_create", !.mode = "create",
                                        !.rcalls = @ + 1]]
               /\ UNCHANGED agents
          ELSE IF reason = "voice_required"
          THEN /\ agents' = Insert(agents, id, row)
               /\ reqs' = [reqs EXCEPT ![r] =
                              [@ EXCEPT !.pc = "done", !.inserts = @ + 1,
                                        !.resp = Ok(Data(id, row))]]
          ELSE /\ reqs' = [reqs EXCEPT ![r] =
                              [@ EXCEPT !.pc = "done", !.resp = Err("ValidationError")]]
               /\ UNCHANGED agents
    /\ UNCHANGED <<voices, remote, idem, nextAgent, nextVoice, nextRemote>>
    /\ UNCHANGED ext

\* create_agent_ultravox_first returns: insert as active, or no row at all
create_draft_agent_remote(r, o) ==
    /\ reqs[r].pc = "await_create" /\ reqs[r].op = "create_draft"
    /\ CanAnswer(r, o)
    /\ LET t   == reqs[r].tenant
           id  == reqs[r].id
           R   == AgentIdOf(r, o)
           row == AgentRow(t, "active", R, reqs[r].voice)
       IN IF R # None
          THEN /\ agents' = Insert(agents, id, row)
               /\ reqs' = [reqs EXCEPT ![r] =
                              [@ EXCEPT !.pc = "done", !.rout = o, !.rid = R,
                                        !.inserts = @ + 1, !.resp = Ok(Data(id, row))]]
          ELSE /\ reqs' = [reqs EXCEPT ![r] =
                              [@ EXCEPT !.pc = "done", !.rout = o,
                                        !.resp = Err("ValidationError")]]
               /\ UNCHANGED agents
    /\ remote' = RemoteAfter(r, o)
    /\ nextRemote' = NextRemoteAfter(r, o)
    /\ UNCHANGED <<voices, idem, nextAgent, nextVoice>>
    /\ UNCHANGED ext

\* ================================== agents.py (legacy POST /agents/draft)
\* a draft row with the tenant's voice or a placeholder; no provider call
create_draft_agent_legacy(r, c) ==
    /\ Free(r)
    /\ LET t == User(c).client_id
       IN IF ~require_admin_role(User(c)) THEN Forbidden(r, c, "create_draft_legacy", t)
          ELSE
              /\ nextAgent <= MaxAgents
              /\ \E v \in (IF \E w \in VoiceIds : voices[w].tenant = t
                          THEN {w \in VoiceIds : voices[w].tenant = t} ELSE {Placeholder}) :
                 LET row == AgentRow(t, "draft", None, v)
                 IN /\ agents' = Insert(agents, nextAgent, row)
                    /\ reqs' = [reqs EXCEPT ![r] =
                                  [Entered(c, "create_draft_legacy") EXCEPT !.tenant = t,
                                                  !.pc = "done", !.voice = v, !.id = nextAgent,
                                                  !.inserts = 1, !.resp = Ok(Data(nextAgent, row))]]
              /\ nextAgent' = nextAgent + 1
              /\ UNCHANGED <<voices, remote, idem, nextVoice, nextRemote>>
    /\ UNCHANGED ext

\* ================================ agents/update.py (PUT, PATCH /{agent_id})
\* the response of an update: the row as re-read after the last write
UpdateDone(r, ag1, o) ==
    [reqs[r] EXCEPT !.pc = "done", !.rout = o,
                    !.resp = Ok(Data(reqs[r].id,
                                     SelectOne(ag1, reqs[r].id, reqs[r].tenant, NoAgent)))]

\* read the row, write the changed fields
update_agent(r, c, a, v) ==
    /\ Free(r)
    /\ LET t == User(c).client_id
       IN IF ~require_admin_role(User(c)) THEN Forbidden(r, c, "update", t)
          ELSE
              /\ LET row == SelectOne(agents, a, t, NoAgent)
                 IN IF row = NoAgent
                    THEN /\ reqs' = [reqs EXCEPT ![r] =
                                        [Entered(c, "update") EXCEPT !.tenant = t, !.id = a,
                                                        !.pc = "done", !.resp = Err("NotFoundError")]]
                         /\ UNCHANGED agents
                    ELSE /\ agents' = UpdateVoice(agents, a, t, v)
                         /\ reqs' = [reqs EXCEPT ![r] =
                                        [Entered(c, "update") EXCEPT !.tenant = t, !.id = a,
                                                        !.pc = "validate",
                                                        !.voice = IF v # None THEN v ELSE row.voice]]
              /\ UNCHANGED <<voices, remote, idem, nextAgent, nextVoice, nextRemote>>
    /\ UNCHANGED ext

\* validate the merged agent; when eligible call sync_agent_to_ultravox
update_agent_validate(r) ==
    /\ reqs[r].pc = "validate" /\ reqs[r].op = "update"
    /\ LET t    == reqs[r].tenant
           id   == reqs[r].id
           mode == SyncMode(id, t)
           row  == SelectOne(agents, id, t, NoAgent)
       IN IF ~CanSync(reqs[r].voice, t)
          THEN /\ reqs' = [reqs EXCEPT ![r] = UpdateDone(r, agents, "none")]
               /\ UNCHANGED agents
          ELSE IF mode \in {"missing", "ineligible"}
          THEN /\ agents' = UpdateStatus(agents, id, t, "failed")
               /\ reqs' = [reqs EXCEPT ![r] = UpdateDone(r, agents', "none")]
          ELSE /\ reqs' = [reqs EXCEPT ![r] =
                              [@ EXCEPT !.pc = "await_sync", !.mode = mode,
                                        !.rid = row.remote, !.rcalls = @ + 1]]
               /\ UNCHANGED agents
    /\ UNCHANGED <<voices, remote, idem, nextAgent, nextVoice, nextRemote>>
    /\ UNCHANGED ext

\* sync_agent_to_ultravox returns: status active on success, failed otherwise
update_agent_sync(r, o) ==
    /\ reqs[r].pc = "await_sync" /\ reqs[r].op = "update"
    /\ CanAnswer(r, o)
    /\ agents' = UpdateStatus(agents, reqs[r].id, reqs[r].tenant,
                              IF o = "ok" THEN "active" ELSE "failed")
    /\ reqs' = [reqs EXCEPT ![r] = [UpdateDone(r, agents', o) EXCEPT !.rid = AgentIdOf(r, o)]]
    /\ remote' = RemoteAfter(r, o)
    /\ nextRemote' = NextRemoteAfter(r, o)
    /\ UNCHANGED <<voices, idem, nextAgent, nextVoice>>
    /\ UNCHANGED ext

\* ============================== agents.py (legacy PUT, PATCH /{agent_id})
\* read the row, write the changed fields, call the provider when the row read
\* has a remote id
update_agent_legacy(r, c, a, v) ==
    /\ Free(r)
    /\ LET t == User(c).client_id
       IN IF ~require_admin_role(User(c)) THEN Forbidden(r, c, "update_legacy", t)
          ELSE
              /\ LET row  == SelectOne(agents, a, t, NoAgent)
                     base == [Entered(c, "update_legacy") EXCEPT !.tenant = t, !.id = a]
                 IN IF row = NoAgent
                    THEN /\ reqs' = [reqs EXCEPT ![r] =
                                        [base EXCEPT !.pc = "done", !.resp = Err("NotFoundError")]]
                         /\ UNCHANGED agents
                    ELSE /\ agents' = UpdateVoice(agents, a, t, v)
                         /\ reqs' = [reqs EXCEPT ![r] =
                                        IF row.remote # None
                                        THEN [base EXCEPT !.pc = "await_update", !.mode = "update",
                                                          !.rid = row.remote]
                                        ELSE [base EXCEPT !.pc = "done",
                                                  !.resp = Ok(Data(a, SelectOne(agents', a, t, NoAgent)))]]
              /\ UNCHANGED <<voices, remote, idem, nextAgent, nextVoice, nextRemote>>
    /\ UNCHANGED ext

\* update_agent_in_ultravox returns: status active on success, nothing otherwise
update_agent_legacy_returns(r, o) ==
    /\ reqs[r].pc = "await_update" /\ reqs[r].op = "update_legacy"
    /\ CanAnswer(r, o)
    /\ agents' = IF o = "ok" THEN UpdateStatus(agents, reqs[r].id, reqs[r].tenant, "active")
                 ELSE agents
    /\ reqs' = [reqs EXCEPT ![r] = UpdateDone(r, agents', o)]
    /\ UNCHANGED <<voices, remote, idem, nextAgent, nextVoice, nextRemote>>
    /\ UNCHANGED ext

\* ====================================== agents.py (DELETE /{agent_id})
Deleted(a) == Ok([id |-> a, status |-> "deleted", remote |-> None])

\* read the row; without a remote id delete it at once
delete_agent(r, c, a) ==
    /\ Free(r)
    /\ LET t == User(c).client_id
       IN IF ~require_admin_role(User(c)) THEN Forbidden(r, c, "delete", t)
          ELSE
              /\ LET row  == SelectOne(agents, a, t, NoAgent)
                     base == [Entered(c, "delete") EXCEPT !.tenant = t, !.id = a]
                 IN IF row = NoAgent
                    THEN /\ reqs' = [reqs EXCEPT ![r] =
                                        [base EXCEPT !.pc = "done", !.resp = Err("NotFoundError")]]
                         /\ UNCHANGED agents
                    ELSE IF row.remote # None
                    THEN /\ reqs' = [reqs EXCEPT ![r] =
                                        [base EXCEPT !.pc = "await_delete", !.mode = "delete",
                                                     !.rid = row.remote]]
                         /\ UNCHANGED agents
                    ELSE /\ agents' = Delete(agents, a, t, NoAgent)
                         /\ reqs' = [reqs EXCEPT ![r] = [base EXCEPT !.pc = "done", !.resp = Deleted(a)]]
              /\ UNCHANGED <<voices, remote, idem, nextAgent, nextVoice, nextRemote>>
    /\ UNCHANGED ext

\* delete_agent_from_ultravox returns; the local delete follows in any case
delete_agent_returns(r, o) ==
    /\ reqs[r].pc = "await_delete" /\ reqs[r].op = "delete"
    /\ CanAnswer(r, o)
    /\ agents' = Delete(agents, reqs[r].id, reqs[r].tenant, NoAgent)
    /\ reqs' = [reqs EXCEPT ![r] =
                  [@ EXCEPT !.pc = "done", !.rout = o, !.resp = Deleted(reqs[r].id)]]
    /\ remote' = RemoteAfter(r, o)
    /\ UNCHANGED <<voices, idem, nextAgent, nextVoice, nextRemote>>
    /\ UNCHANGED ext

\* ================================ agents.py (POST /{agent_id}/test-call)
\* create_test_call with the except clause of sync_agent, which re-raises
\* ForbiddenError and ProviderError only
create_test_call_converts(r, c, a) ==
    /\ Free(r)
    /\ LET t    == User(c).client_id
           row  == SelectOne(agents, a, t, NoAgent)
           base == [Entered(c, "test_call") EXCEPT !.tenant = t, !.id = a]
       IN reqs' = [reqs EXCEPT ![r] =
                     IF row = NoAgent
                     THEN [base EXCEPT !.pc = "done", !.resp = Err("ValidationError")]
                     ELSE IF row.remote = None
                     THEN [base EXCEPT !.pc = "done", !.resp = Err("ValidationError")]
                     ELSE [base EXCEPT !.pc = "await_call", !.mode = "call",
                                       !.rid = row.remote, !.rcalls = 1]]
    /\ UNCHANGED <<agents, voices, remote, idem, nextAgent, nextVoice, nextRemote>>
    /\ UNCHANGED ext

\* read the row; a row with a remote id gets a call at the provider
create_test_call(r, c, a) ==
    /\ Free(r)
    /\ LET t    == User(c).client_id
           row  == SelectOne(agents, a, t, NoAgent)
           base == [Entered(c, "test_call") EXCEPT !.tenant = t, !.id = a]
       IN reqs' = [reqs EXCEPT ![r] =
                     IF row = NoAgent
                     THEN [base EXCEPT !.pc = "done", !.resp = Err("NotFoundError")]
                     ELSE IF row.remote = None
                     THEN [base EXCEPT !.pc = "done", !.resp = Err("ValidationError")]
                     ELSE [base EXCEPT !.pc = "await_call", !.mode = "call",
                                       !.rid = row.remote, !.rcalls = 1]]
    /\ UNCHANGED <<agents, voices, remote, idem, nextAgent, nextVoice, nextRemote>>
    /\ UNCHANGED ext

\* create_agent_call returns: the join url, a response without joinUrl
\* (ValidationError), or the provider's error
create_test_call_returns(r, o) ==
    /\ reqs[r].pc = "await_call" /\ reqs[r].op = "test_call"
    /\ CanAnswer(r, o)
    /\ reqs' = [reqs EXCEPT ![r] =
                  [@ EXCEPT !.pc = "done", !.rout = o,
                            !.resp = IF o = "ok"
                                     THEN Ok([id |-> reqs[r].id, status |-> "call",
                                              remote |-> reqs[r].rid])
                                     ELSE IF o = "noid" THEN Err("ValidationError")
                                     ELSE Err("ProviderError")]]
    /\ UNCHANGED <<agents, voices, remote, idem, nextAgent, nextVoice, nextRemote>>
    /\ UNCHANGED ext

\* ===================================== agents.py (GET /{agent_id}/sync)
\* sync_agent_to_ultravox up to its provider call
sync_agent(r, c, a) ==
    /\ Free(r)
    /\ LET t == User(c).client_id
       IN IF ~require_admin_role(User(c)) THEN Forbidden(r, c, "sync", t)
          ELSE
              /\ LET mode == SyncMode(a, t)
                     base == [Entered(c, "sync") EXCEPT !.tenant = t, !.id = a]
                 IN reqs' = [reqs EXCEPT ![r] =
                               IF mode \in {"missing", "ineligible"}
                               THEN [base EXCEPT !.pc = "done", !.resp = Err("ValidationError")]
                               ELSE [base EXCEPT !.pc = "await_sync", !.mode = mode, !.rcalls = 1,
                                                 !.rid = SelectOne(agents, a, t, NoAgent).remote]]
              /\ UNCHANGED <<agents, voices, remote, idem, nextAgent, nextVoice,
                             nextRemote>>
    /\ UNCHANGED ext

\* sync_agent_returns writing the returned id without the status
sync_agent_returns_keep_status(r, o) ==
    /\ reqs[r].pc = "await_sync" /\ reqs[r].op = "sync"
    /\ CanAnswer(r, o)
    /\ LET t   == reqs[r].tenant
           id  == reqs[r].id
           R   == AgentIdOf(r, o)
           row == SelectOne(agents, id, t, NoAgent)
       IN IF o # "ok"
          THEN /\ reqs' = [reqs EXCEPT ![r] =
                              [@ EXCEPT !.pc = "done", !.rout = o, !.resp = Err("ProviderError")]]
               /\ UNCHANGED agents
          ELSE /\ agents' = IF row # NoAgent /\ row.remote = None /\ R # None
                            THEN [agents EXCEPT ![id].remote = R] ELSE agents
               /\ reqs' = [reqs EXCEPT ![r] =
                              [@ EXCEPT !.pc = "done", !.rout = o, !.rid = R,
                                  !.resp = Ok([id |-> id, status |-> "synced", remote |-> R])]]
    /\ remote' = RemoteAfter(r, o)
    /\ nextRemote' = NextRemoteAfter(r, o)
    /\ UNCHANGED <<voices, idem, nextAgent, nextVoice>>
    /\ UNCHANGED ext

\* sync_agent_returns marking the row failed when the provider call failed, as
\* update_agent does
sync_agent_returns_marks_failed(r, o) ==
    /\ reqs[r].pc = "await_sync" /\ reqs[r].op = "sync"
    /\ CanAnswer(r, o)
    /\ LET t   == reqs[r].tenant
           id  == reqs[r].id
           R   == AgentIdOf(r, o)
           row == SelectOne(agents, id, t, NoAgent)
       IN IF o # "ok"
          THEN /\ reqs' = [reqs EXCEPT ![r] =
                              [@ EXCEPT !.pc = "done", !.rout = o, !.resp = Err("ProviderError")]]
               /\ agents' = UpdateStatus(agents, id, t, "failed")
          ELSE /\ agents' = IF row # NoAgent /\ row.remote = None /\ R # None
                            THEN UpdateRemoteActive(agents, id, t, R) ELSE agents
               /\ reqs' = [reqs EXCEPT ![r] =
                              [@ EXCEPT !.pc = "done", !.rout = o, !.rid = R,
                                  !.resp = Ok([id |-> id, status |-> "synced", remote |-> R])]]
    /\ remote' = RemoteAfter(r, o)
    /\ nextRemote' = NextRemoteAfter(r, o)
    /\ UNCHANGED <<voices, idem, nextAgent, nextVoice>>
    /\ UNCHANGED ext

\* sync_agent_to_ultravox returns: a row that has no remote id yet takes the
\* returned id and becomes active
sync_agent_returns(r, o) ==
    /\ reqs[r].pc = "await_sync" /\ reqs[r].op = "sync"
    /\ CanAnswer(r, o)
    /\ LET t   == reqs[r].tenant
           id  == reqs[r].id
           R   == AgentIdOf(r, o)
           row == SelectOne(agents, id, t, NoAgent)
       IN IF o # "ok"
          THEN /\ reqs' = [reqs EXCEPT ![r] =
                              [@ EXCEPT !.pc = "done", !.rout = o, !.resp = Err("ProviderError")]]
               /\ UNCHANGED agents
          ELSE /\ agents' = IF row # NoAgent /\ row.remote = None /\ R # None
                            THEN UpdateRemoteActive(agents, id, t, R) ELSE agents
               /\ reqs' = [reqs EXCEPT ![r] =
                              [@ EXCEPT !.pc = "done", !.rout = o, !.rid = R,
                                  !.resp = Ok([id |-> id, status |-> "synced", remote |-> R])]]
    /\ remote' = RemoteAfter(r, o)
    /\ nextRemote' = NextRemoteAfter(r, o)
    /\ UNCHANGED <<voices, idem, nextAgent, nextVoice>>
    /\ UNCHANGED ext

\* ================= agents/assistance_suggestions.py (approve, reject)
\* The agent of the sessions exists under the caller's client_id; a message id
\* above MaxMessages names no row.  A step is one call of the store.
NoMessage == [suggested_prompt_change |-> FALSE, approval_state |-> "absent"]

\* get_message_with_suggestion
get_message_with_suggestion(m) == IF m \in MessageIds THEN messages[m] ELSE NoMessage

Rejected(m) == Ok([id |-> m, status |-> "rejected", remote |-> None])

\* POST .../suggestions/{message_id}/approve, up to the check of the state
approve_prompt_suggestion(r, c, m) ==
    /\ Free(r)
    /\ LET base    == [Entered(c, "approve") EXCEPT !.tenant = User(c).client_id, !.id = m]
           message == get_message_with_suggestion(m)
       IN reqs' = [reqs EXCEPT ![r] =
                     IF ~require_admin_role(User(c))
                     THEN [base EXCEPT !.pc = "done", !.resp = Err("ForbiddenError")]
                     ELSE IF message = NoMessage
                     THEN [base EXCEPT !.pc = "done", !.resp = Err("NotFoundError")]
                     ELSE IF ~message.suggested_prompt_change
                     THEN [base EXCEPT !.pc = "done", !.resp = Err("ValidationError")]
                     ELSE IF message.approval_state \in {"approved", "rejected"}
                     THEN [base EXCEPT !.pc = "done", !.seen = message.approval_state,
                                       !.resp = Err("ValidationError")]
                     ELSE [base EXCEPT !.pc = "apply", !.seen = message.approval_state]]
    /\ UNCHANGED store
    /\ UNCHANGED ext

\* the update of agents.system_prompt, filtered by the agent id alone; a
\* failure is raised as ValidationError
approve_apply(r, w) ==
    /\ reqs[r].pc = "apply" /\ reqs[r].op = "approve"
    /\ IF w = "ok"
       THEN /\ system_prompt' = reqs[r].id
            /\ prompt_log' = prompt_log \cup {reqs[r].id}
            /\ reqs' = [reqs EXCEPT ![r] = [@ EXCEPT !.pc = "mark", !.bare = @ + 1]]
       ELSE /\ UNCHANGED <<system_prompt, prompt_log>>
            /\ reqs' = [reqs EXCEPT ![r] =
                           [@ EXCEPT !.pc = "done", !.rout = w, !.resp = Err("ValidationError")]]
    /\ UNCHANGED store
    /\ UNCHANGED messages
    /\ UNCHANGED <<clerk_jwks_cache, clerk_jwks_cache_expiry, clerk_keys, now, users,
                   promoted, contact_folders, contacts, issued, files, served>>

\* update_message_approval_state(message_id, state): the row is written, or
\* the exception is logged and False is returned
update_message_approval_state(m, state, w) ==
    IF w = "ok" THEN [messages EXCEPT ![m].approval_state = state] ELSE messages

\* update_message_approval_state(message_id, "approved"), whose result is not
\* read, and the success response
approve_mark(r, w) ==
    /\ reqs[r].pc = "mark" /\ reqs[r].op = "approve"
    /\ messages' = update_message_approval_state(reqs[r].id, "approved", w)
    /\ reqs' = [reqs EXCEPT ![r] =
                  [@ EXCEPT !.pc = "done", !.rout = w, !.resp = Ok([id |-> reqs[r].id, status |-> "approved",
                                                  remote |-> None])]]
    /\ UNCHANGED store
    /\ UNCHANGED <<system_prompt, prompt_log>>
    /\ UNCHANGED <<clerk_jwks_cache, clerk_jwks_cache_expiry, clerk_keys, now, users,
                   promoted, contact_folders, contacts, issued, files, served>>

\* reject_prompt_suggestion with the check of the approved state left out
reject_prompt_suggestion_unchecked(r, c, m) ==
    /\ Free(r)
    /\ LET base    == [Entered(c, "reject") EXCEPT !.tenant = User(c).client_id, !.id = m]
           message == get_message_with_suggestion(m)
       IN reqs' = [reqs EXCEPT ![r] =
                     IF message = NoMessage
                     THEN [base EXCEPT !.pc = "done", !.resp = Err("NotFoundError")]
                     ELSE IF ~message.suggested_prompt_change
                     THEN [base EXCEPT !.pc = "done", !.resp = Err("ValidationError")]
                     ELSE IF message.approval_state = "rejected"
                     THEN [base EXCEPT !.pc = "done", !.seen = message.approval_state,
                                       !.resp = Rejected(m)]
                     ELSE [base EXCEPT !.pc = "mark", !.seen = message.approval_state]]
    /\ UNCHANGED store
    /\ UNCHANGED ext

\* POST .../suggestions/{message_id}/reject, up to the check of the state; the
\* handler has no role check
reject_prompt_suggestion(r, c, m) ==
    /\ Free(r)
    /\ LET base    == [Entered(c, "reject") EXCEPT !.tenant = User(c).client_id, !.id = m]
           message == get_message_with_suggestion(m)
       IN reqs' = [reqs EXCEPT ![r] =
                     IF message = NoMessage
                     THEN [base EXCEPT !.pc = "done", !.resp = Err("NotFoundError")]
                     ELSE IF ~message.suggested_prompt_change
                     THEN [base EXCEPT !.pc = "done", !.resp = Err("ValidationError")]
                     ELSE IF message.approval_state = "approved"
                     THEN [base EXCEPT !.pc = "done", !.seen = message.approval_state,
                                       !.resp = Err("ValidationError")]
                     ELSE IF message.approval_state = "rejected"
                     THEN [base EXCEPT !.pc = "done", !.seen = message.approval_state,
                                       !.resp = Rejected(m)]
                     ELSE [base EXCEPT !.pc = "mark", !.seen = message.approval_state]]
    /\ UNCHANGED store
    /\ UNCHANGED ext

\* update_message_approval_state(message_id, "rejected") and the success
\* response
reject_mark(r, w) ==
    /\ reqs[r].pc = "mark" /\ reqs[r].op = "reject"
    /\ messages' = update_message_approval_state(reqs[r].id, "rejected", w)
    /\ reqs' = [reqs EXCEPT ![r] =
                  [@ EXCEPT !.pc = "done", !.rout = w, !.resp = Rejected(reqs[r].id)]]
    /\ UNCHANGED store
    /\ UNCHANGED <<system_prompt, prompt_log>>
    /\ UNCHANGED <<clerk_jwks_cache, clerk_jwks_cache_expiry, clerk_keys, now, users,
                   promoted, contact_folders, contacts, issued, files, served>>

\* ==================================== core/auth.py (get_clerk_jwks, the clock)
\* the cache is served when it is set and time.time() is before its expiry
CacheFresh == clerk_jwks_cache.present /\ clerk_jwks_cache_expiry # None
              /\ now < clerk_jwks_cache_expiry

\* get_clerk_jwks up to the GET of the JWKS url: the cached key set, or the
\* request is sent; rows is the key set returned
get_clerk_jwks(r) ==
    /\ Free(r)
    /\ reqs' = [reqs EXCEPT ![r] =
                  IF CacheFresh
                  THEN [IdleReq EXCEPT !.op = "jwks", !.pc = "done", !.seen = "hit",
                                       !.rows = clerk_jwks_cache.keys, !.resp = Ok(NoData)]
                  ELSE [IdleReq EXCEPT !.op = "jwks", !.pc = "await_jwks", !.seen = "miss",
                                       !.rcalls = 1]]
    /\ UNCHANGED store
    /\ UNCHANGED ext

\* the answer with a failed fetch dropping what the process had cached
get_clerk_jwks_returns_clears(r, o) ==
    /\ reqs[r].pc = "await_jwks"
    /\ IF o = "ok"
       THEN /\ clerk_jwks_cache' = Jwks(clerk_keys)
            /\ clerk_jwks_cache_expiry' = now + CacheTtl
            /\ reqs' = [reqs EXCEPT ![r] = [@ EXCEPT !.pc = "done", !.rout = o,
                                               !.rows = clerk_keys, !.resp = Ok(NoData)]]
       ELSE /\ clerk_jwks_cache' = NoJwks
            /\ clerk_jwks_cache_expiry' = None
            /\ reqs' = [reqs EXCEPT ![r] =
                          IF clerk_jwks_cache.present
                          THEN [@ EXCEPT !.pc = "done", !.rout = o,
                                         !.rows = clerk_jwks_cache.keys, !.resp = Ok(NoData)]
                          ELSE [@ EXCEPT !.pc = "done", !.rout = o,
                                         !.resp = Err("UnauthorizedError")]]
    /\ UNCHANGED <<clerk_keys, now>>
    /\ UNCHANGED store
    /\ UNCHANGED <<messages, system_prompt, prompt_log, users, promoted,
                   contact_folders, contacts, issued, files, served>>

\* the answer of the JWKS url: a 2xx replaces cache and expiry; any exception
\* (timeout, status, body) returns the cache when there is one and raises
\* UnauthorizedError when there is none
get_clerk_jwks_returns(r, o) ==
    /\ reqs[r].pc = "await_jwks"
    /\ IF o = "ok"
       THEN /\ clerk_jwks_cache' = Jwks(clerk_keys)
            /\ clerk_jwks_cache_expiry' = now + CacheTtl
            /\ reqs' = [reqs EXCEPT ![r] = [@ EXCEPT !.pc = "done", !.rout = o,
                                               !.rows = clerk_keys, !.resp = Ok(NoData)]]
       ELSE /\ UNCHANGED <<clerk_jwks_cache, clerk_jwks_cache_expiry>>
            /\ reqs' = [reqs EXCEPT ![r] =
                          IF clerk_jwks_cache.present
                          THEN [@ EXCEPT !.pc = "done", !.rout = o,
                                         !.rows = clerk_jwks_cache.keys, !.resp = Ok(NoData)]
                          ELSE [@ EXCEPT !.pc = "done", !.rout = o,
                                         !.resp = Err("UnauthorizedError")]]
    /\ UNCHANGED <<clerk_keys, now>>
    /\ UNCHANGED store
    /\ UNCHANGED <<messages, system_prompt, prompt_log, users, promoted,
                   contact_folders, contacts, issued, files, served>>

\* time.time() moves on
Tick ==
    /\ now < MaxTicks * 1800
    /\ now' = now + 1800
    /\ UNCHANGED <<store, reqs, messages, system_prompt, prompt_log, clerk_jwks_cache,
                   clerk_jwks_cache_expiry, clerk_keys, users, promoted,
                   contact_folders, contacts, issued, files, served>>

\* Clerk publishes another key set
rotate_keys(ks) ==
    /\ ks # clerk_keys
    /\ clerk_keys' = ks
    /\ UNCHANGED <<clerk_jwks_cache, clerk_jwks_cache_expiry>>
    /\ UNCHANGED <<store, reqs, messages, system_prompt, prompt_log, now, users,
                   promoted, contact_folders, contacts, issued, files, served>>

\* ====================== core/auth.py (get_current_user over the users table)
\* the users rows hold their organisation in client_id (the standard case of
\* ensure_admin_role_for_creator); the steps are the calls on the users table

\* get_current_user: the users row of the token's subject is read
get_current_user_reads(r, u, clerk_role) ==
    /\ Free(r)
    /\ reqs' = [reqs EXCEPT ![r] =
                  [IdleReq EXCEPT !.op = "resolve", !.pc = "ensure", !.user = u,
                                  !.mode = clerk_role, !.tenant = users[u].client_id,
                                  !.seen = users[u].role]]
    /\ UNCHANGED store
    /\ UNCHANGED ext

\* select(...).eq("client_id", client_id) and the admins among the others
other_admins(u, client_id) ==
    {v \in UserIds : users[v].client_id = client_id /\ v # u
                     /\ users[v].role = "client_admin"}

\* ensure_admin_role_for_creator up to its first call on the users table: a
\* Clerk org admin is written as client_admin; a user without a row is a
\* client_user; a stored client_admin stays one; for the others the users of
\* the organisation are read
ensure_admin_role_reads(r) ==
    /\ reqs[r].pc = "ensure" /\ reqs[r].op = "resolve"
    /\ LET u == reqs[r].user
           user_data == reqs[r].seen
       IN IF reqs[r].mode = "org:admin"
          THEN /\ users' = IF user_data \notin {"none", "client_admin"}
                           THEN [users EXCEPT ![u].role = "client_admin"] ELSE users
               /\ reqs' = [reqs EXCEPT ![r] = [@ EXCEPT !.pc = "done", !.role = "client_admin",
                                                  !.resp = Ok(NoData)]]
          ELSE /\ UNCHANGED users
               /\ reqs' = [reqs EXCEPT ![r] =
                    IF user_data = "none"
                    THEN [@ EXCEPT !.pc = "done", !.role = "client_user", !.resp = Ok(NoData)]
                    ELSE IF user_data = "client_admin"
                    THEN [@ EXCEPT !.pc = "done", !.role = "client_admin", !.resp = Ok(NoData)]
                    ELSE IF {v \in UserIds : users[v].client_id = reqs[r].tenant} # {}
                            /\ other_admins(u, reqs[r].tenant) = {}
                    THEN [@ EXCEPT !.pc = "promote"]
                    ELSE [@ EXCEPT !.pc = "done", !.role = user_data, !.resp = Ok(NoData)]]
    /\ UNCHANGED promoted
    /\ UNCHANGED store
    /\ UNCHANGED <<messages, system_prompt, prompt_log, clerk_jwks_cache,
                   clerk_jwks_cache_expiry, clerk_keys, now, contact_folders, contacts,
                   issued, files, served>>

\* update({"role": "client_admin"}).eq("clerk_user_id", user_id); an exception
\* is logged and the role read before is returned
ensure_admin_role_promotes(r, w) ==
    /\ reqs[r].pc = "promote" /\ reqs[r].op = "resolve"
    /\ IF w = "ok"
       THEN /\ users' = [users EXCEPT ![reqs[r].user].role = "client_admin"]
            /\ promoted' = promoted \cup {reqs[r].user}
            /\ reqs' = [reqs EXCEPT ![r] = [@ EXCEPT !.pc = "done", !.role = "client_admin",
                                               !.stored = TRUE, !.rout = w,
                                               !.resp = Ok(NoData)]]
       ELSE /\ UNCHANGED <<users, promoted>>
            /\ reqs' = [reqs EXCEPT ![r] = [@ EXCEPT !.pc = "done", !.role = reqs[r].seen,
                                               !.rout = w, !.resp = Ok(NoData)]]
    /\ UNCHANGED store
    /\ UNCHANGED <<messages, system_prompt, prompt_log, clerk_jwks_cache,
                   clerk_jwks_cache_expiry, clerk_keys, now, contact_folders, contacts,
                   issued, files, served>>

\* ============ contacts/folders/delete.py, contacts/bulk_create.py (contacts)
\* the steps are the DatabaseService calls that write

\* db.count("contacts", {"folder_id": f}) and what db.delete(...) removes
InFolder(f) == {k \in ContactIds : contacts[k].folder_id = f}

\* DELETE /contacts/folders/{folder_id} up to the first write: the role check,
\* the folder of the caller's client_id and the count of its contacts
delete_contact_folder(r, c, f) ==
    /\ Free(r)
    /\ LET t    == User(c).client_id
           base == [Entered(c, "delete_folder") EXCEPT !.tenant = t, !.id = f]
       IN reqs' = [reqs EXCEPT ![r] =
                     IF ~require_admin_role(User(c))
                     THEN [base EXCEPT !.pc = "done", !.resp = Err("ForbiddenError")]
                     ELSE IF contact_folders[f].client_id # t
                     THEN [base EXCEPT !.pc = "done", !.resp = Err("NotFoundError")]
                     ELSE [base EXCEPT !.pc = "delete_contacts", !.seen = "found",
                                       !.rcalls = Cardinality(InFolder(f))]]
    /\ UNCHANGED store
    /\ UNCHANGED ext

\* db.delete("contacts", {"folder_id": folder_id})
delete_folder_contacts(r) ==
    /\ reqs[r].pc = "delete_contacts" /\ reqs[r].op = "delete_folder"
    /\ contacts' = [k \in ContactIds |->
                      IF contacts[k].folder_id = reqs[r].id THEN NoContact ELSE contacts[k]]
    /\ reqs' = [reqs EXCEPT ![r] = [@ EXCEPT !.pc = "delete_folder", !.bare = @ + 1]]
    /\ UNCHANGED contact_folders
    /\ UNCHANGED store
    /\ UNCHANGED <<messages, system_prompt, prompt_log, clerk_jwks_cache,
                   clerk_jwks_cache_expiry, clerk_keys, now, users, promoted, issued,
                   files, served>>

\* db.delete("contact_folders", {"id": folder_id}) and the response
delete_folder_row(r) ==
    /\ reqs[r].pc = "delete_folder" /\ reqs[r].op = "delete_folder"
    /\ contact_folders' = [contact_folders EXCEPT ![reqs[r].id] = [client_id |-> "none"]]
    /\ reqs' = [reqs EXCEPT ![r] = [@ EXCEPT !.pc = "done", !.stored = TRUE, !.bare = @ + 1,
                                       !.resp = Ok(NoData)]]
    /\ UNCHANGED contacts
    /\ UNCHANGED store
    /\ UNCHANGED <<messages, system_prompt, prompt_log, clerk_jwks_cache,
                   clerk_jwks_cache_expiry, clerk_keys, now, users, promoted, issued,
                   files, served>>

\* POST /contacts/bulk up to the first insert, for a body of n valid contacts
\* that all name folder f: the role check, the folder of the caller's
\* client_id, the validation; rows is what is still to be inserted
bulk_create_contacts(r, c, f, n) ==
    /\ Free(r)
    /\ LET t    == User(c).client_id
           base == [Entered(c, "bulk_create") EXCEPT !.tenant = t, !.id = f]
       IN reqs' = [reqs EXCEPT ![r] =
                     IF ~require_admin_role(User(c))
                     THEN [base EXCEPT !.pc = "done", !.resp = Err("ForbiddenError")]
                     ELSE IF contact_folders[f].client_id # t
                     THEN [base EXCEPT !.pc = "done", !.resp = Err("NotFoundError")]
                     ELSE IF n = 0
                     THEN [base EXCEPT !.pc = "done", !.seen = "found",
                                       !.resp = Err("ValidationError")]
                     ELSE [base EXCEPT !.pc = "insert", !.seen = "found", !.rows = 1 .. n]]
    /\ UNCHANGED store
    /\ UNCHANGED ext

\* db.insert("contacts", contact_record) for the next contact of the body,
\* under a fresh uuid4; the response follows the last one
bulk_insert_contact(r) ==
    /\ reqs[r].pc = "insert" /\ reqs[r].op = "bulk_create"
    /\ \E k \in ContactIds :
         /\ contacts[k] = NoContact
         /\ \A j \in ContactIds : j < k => contacts[j] # NoContact
         /\ contacts' = [contacts EXCEPT ![k] =
                            [client_id |-> reqs[r].tenant, folder_id |-> reqs[r].id]]
    /\ LET rest == reqs[r].rows \ {CHOOSE x \in reqs[r].rows : \A y \in reqs[r].rows : x <= y}
       IN reqs' = [reqs EXCEPT ![r] =
                     IF rest = {}
                     THEN [@ EXCEPT !.pc = "done", !.rows = rest, !.inserts = @ + 1,
                                    !.stored = TRUE, !.resp = Ok(NoData)]
                     ELSE [@ EXCEPT !.rows = rest, !.inserts = @ + 1]]
    /\ UNCHANGED contact_folders
    /\ UNCHANGED store
    /\ UNCHANGED <<messages, system_prompt, prompt_log, clerk_jwks_cache,
                   clerk_jwks_cache_expiry, clerk_keys, now, users, promoted, issued,
                   files, served>>

\* ======================================= files.py (GET, PUT /files/{bucket})
\* f"{operation}:{bucket_type}:{key}:{expires}": the four parts in order; bucket
\* types and keys here hold no ":" so the parts can be told apart
signed_message(operation, bucket_type, key, expires) ==
    <<operation, bucket_type, key, expires>>

\* hmac.new(secret, message, sha256).hexdigest() under the configured secret:
\* equal only for equal messages, and made only by who holds the secret
hmac_hexdigest(message) == [signed |-> message]

\* a presigned url is handed out for an operation on a file, expiring later
generate_presigned_url(operation, bucket_type, key, expires) ==
    /\ Cardinality(issued) < MaxIssued
    /\ expires > now
    /\ issued' = issued \cup
                   {hmac_hexdigest(signed_message(operation, bucket_type, key, expires))}
    /\ UNCHANGED <<files, served>>
    /\ UNCHANGED <<store, reqs, messages, system_prompt, prompt_log, clerk_jwks_cache,
                   clerk_jwks_cache_expiry, clerk_keys, now, users, promoted,
                   contact_folders, contacts>>

\* the signatures there are, and the query of a request on
\* /files/{bucket_type}; a client presents a signature it was given (it cannot
\* make one), with any other parameters
FileQueries ==
    [bucket_type : {"uploads", "recordings"}, key : FileKeys, expires : Times, signature :
       {hmac_hexdigest(signed_message(operation, b, k, e)) :
            operation \in {"get", "put"}, b \in {"uploads", "recordings"},
            k \in FileKeys, e \in Times},
     operation : {"get", "put"}]

\* GET /files/{bucket_type}: the signature is compared with the one of the
\* operation the query names; 403 when it differs or the url has expired, 404
\* without a file; otherwise the file is served
serve_file(q) ==
    /\ q.signature \in issued
    /\ q.signature = hmac_hexdigest(signed_message(q.operation, q.bucket_type, q.key,
                                                   q.expires))
    /\ ~(now > q.expires)
    /\ <<q.bucket_type, q.key>> \in files
    /\ served' = served \cup {[method |-> "GET", query |-> q]}
    /\ UNCHANGED <<issued, files>>
    /\ UNCHANGED <<store, reqs, messages, system_prompt, prompt_log, clerk_jwks_cache,
                   clerk_jwks_cache_expiry, clerk_keys, now, users, promoted,
                   contact_folders, contacts>>

\* PUT /files/{bucket_type}: 400 unless the query names operation put; the
\* signature is compared with the one of "put"; 403 when it differs or the
\* url has expired; otherwise the body is written under the key
upload_file(q) ==
    /\ q.signature \in issued
    /\ q.operation = "put"
    /\ q.signature = hmac_hexdigest(signed_message("put", q.bucket_type, q.key, q.expires))
    /\ ~(now > q.expires)
    /\ files' = files \cup {<<q.bucket_type, q.key>>}
    /\ served' = served \cup {[method |-> "PUT", query |-> q]}
    /\ UNCHANGED issued
    /\ UNCHANGED <<store, reqs, messages, system_prompt, prompt_log, clerk_jwks_cache,
                   clerk_jwks_cache_expiry, clerk_keys, now, users, promoted,
                   contact_folders, contacts>>

\* ================================================================ system
\* the callers below are organisation admins whose users row carries the
\* organisation as client_id
VoiceOps(r) ==
    \/ \E t \in Tenants, st \in {"native", "external"} : create_voice(r, OrgAdmin(t), st)
    \/ \E o \in Outcomes : create_voice_elevenlabs(r, o)
    \/ \E o \in Outcomes : create_voice_ultravox(r, o)
    \/ \E t \in Tenants : create_voice_clone(r, OrgAdmin(t))
    \/ \E o \in Outcomes : clone_to_elevenlabs(r, o)
    \/ \E o \in Outcomes : create_voice_clone_import(r, o)
    \/ \E t \in Tenants, v \in VoiceIds : get_voice(r, OrgAdmin(t), v)
    \/ \E t \in Tenants, v \in VoiceIds : delete_voice(r, OrgAdmin(t), v)

\* the one voice endpoint the agent scenarios need: an external import
VoiceImport(r) ==
    \/ \E t \in Tenants : create_voice(r, OrgAdmin(t), "external")
    \/ \E o \in Outcomes : create_voice_ultravox(r, o)

CreateOps(r) ==
    \/ \E t \in Tenants, k \in Keys, v \in VoiceIds \cup {None} :
           create_agent_check(r, OrgAdmin(t), k, v)
    \/ create_agent_validate(r)
    \/ \E o \in Outcomes : create_agent_remote(r, o)
    \/ create_agent_store(r)
    \/ \E t \in Tenants, k \in Keys, v \in VoiceIds \cup {None} :
           create_agent_legacy_check(r, OrgAdmin(t), k, v)
    \/ create_agent_legacy_insert(r)
    \/ \E o \in Outcomes : create_agent_legacy_sync(r, o)
    \/ create_agent_legacy_store(r)
    \/ \E t \in Tenants : create_draft_agent(r, OrgAdmin(t))
    \/ create_draft_agent_validate(r)
    \/ \E o \in Outcomes : create_draft_agent_remote(r, o)
    \/ \E t \in Tenants : create_draft_agent_legacy(r, OrgAdmin(t))
    \/ \E t \in Tenants, a \in AgentIds : get_agent(r, OrgAdmin(t), a)

LifecycleOps(r) ==
    \/ \E t \in Tenants, a \in AgentIds, v \in VoiceIds \cup {None} :
           update_agent(r, OrgAdmin(t), a, v)
    \/ update_agent_validate(r)
    \/ \E o \in Outcomes : update_agent_sync(r, o)
    \/ \E t \in Tenants, a \in AgentIds, v \in VoiceIds \cup {None} :
           update_agent_legacy(r, OrgAdmin(t), a, v)
    \/ \E o \in Outcomes : update_agent_legacy_returns(r, o)
    \/ \E t \in Tenants, a \in AgentIds : delete_agent(r, OrgAdmin(t), a)
    \/ \E o \in Outcomes : delete_agent_returns(r, o)
    \/ \E t \in Tenants, a \in AgentIds : sync_agent(r, OrgAdmin(t), a)
    \/ \E o \in Outcomes : sync_agent_returns(r, o)

\* every endpoint
Next == \E r \in Reqs : Retire(r) \/ VoiceOps(r) \/ CreateOps(r) \/ LifecycleOps(r)
Spec == Init /\ [][Next]_vars

\* the voice endpoints alone
NextVoice == \E r \in Reqs : Retire(r) \/ VoiceOps(r)
SpecVoice == Init /\ [][NextVoice]_vars

\* the create endpoints of agents, with the voices they refer to
NextCreate == \E r \in Reqs : Retire(r) \/ VoiceImport(r) \/ CreateOps(r)
SpecCreate == Init /\ [][NextCreate]_vars

\* the two create handlers called with an idempotency key, each serving one
\* tenant: create.py partitions by clerk_org_id (tA), agents.py by client_id
\* (tB); the voices were created before and every voice id is taken
InitVoices ==
    /\ agents = [a \in AgentIds |-> NoAgent]
    /\ voices \in [VoiceIds -> {VoiceRow(t, 1) : t \in Tenants}]
    /\ remote = {}
    /\ idem = [t \in Tenants |-> [k \in Keys \ {"none"} |-> NoIdem]]
    /\ nextAgent = 1
    /\ nextVoice = MaxVoices + 1
    /\ nextRemote = 1
    /\ reqs = [r \in Reqs |-> IdleReq]
    /\ InitExt

NextReplay ==
    \E r \in Reqs :
        \/ Retire(r)
        \/ \E k \in Keys \ {"none"}, v \in VoiceIds \cup {None} : create_agent_check(r, OrgAdmin("tA"), k, v)
        \/ create_agent_validate(r)
        \/ \E o \in Outcomes : create_agent_remote(r, o)
        \/ create_agent_store(r)
        \/ \E k \in Keys \ {"none"}, v \in VoiceIds \cup {None} : create_agent_legacy_check(r, OrgAdmin("tB"), k, v)
        \/ create_agent_legacy_insert(r)
        \/ \E o \in Outcomes : create_agent_legacy_sync(r, o)
        \/ create_agent_legacy_store(r)
SpecReplay == InitVoices /\ [][NextReplay]_vars

\* the agent endpoints that change a row after its creation, with two create
\* handlers and the voices they refer to
NextLifecycle ==
    \E r \in Reqs :
        \/ Retire(r)
        \/ VoiceImport(r)
        \/ \E t \in Tenants, v \in VoiceIds \cup {None} : create_agent_check(r, OrgAdmin(t), "none", v)
        \/ create_agent_validate(r)
        \/ \E o \in Outcomes : create_agent_remote(r, o)
        \/ \E t \in Tenants : create_draft_agent_legacy(r, OrgAdmin(t))
        \/ LifecycleOps(r)
SpecLifecycle == Init /\ [][NextLifecycle]_vars

\* a catalogue both tenants have filled in turn: every agent id and voice id
\* is taken by a draft agent or an imported voice, odd ids by tA, even by tB
TenantOf(id) == IF id % 2 = 1 THEN "tA" ELSE "tB"
InitCatalogue ==
    /\ agents = [a \in AgentIds |-> AgentRow(TenantOf(a), "draft", None, Placeholder)]
    /\ voices = [v \in VoiceIds |-> VoiceRow(TenantOf(v), 1)]
    /\ remote = {}
    /\ idem = [t \in Tenants |-> [k \in Keys \ {"none"} |-> NoIdem]]
    /\ nextAgent = MaxAgents + 1
    /\ nextVoice = MaxVoices + 1
    /\ nextRemote = 1
    /\ reqs = [r \in Reqs |-> IdleReq]
    /\ InitExt

\* reads, updates and deletes over that catalogue: the admin of tB works on
\* agents, the admins of both tenants on voices
NextTenant ==
    \E r \in Reqs :
        \/ Retire(r)
        \/ \E a \in AgentIds : get_agent(r, OrgAdmin("tB"), a)
        \/ list_agents(r, OrgAdmin("tB"))
        \/ \E a \in AgentIds, v \in VoiceIds : update_agent_legacy(r, OrgAdmin("tB"), a, v)
        \/ \E a \in AgentIds : delete_agent(r, OrgAdmin("tB"), a)
        \/ \E t \in Tenants, v \in VoiceIds : get_voice(r, OrgAdmin(t), v)
        \/ \E t \in Tenants : list_voices(r, OrgAdmin(t))
        \/ \E t \in Tenants, v \in VoiceIds : update_voice(r, OrgAdmin(t), v)
        \/ \E body \in VoiceBodies : update_voice_body(r, body)
        \/ \E t \in Tenants, v \in VoiceIds : delete_voice(r, OrgAdmin(t), v)
SpecTenant == InitCatalogue /\ [][NextTenant]_vars

\* the endpoints that write, called without idempotency key by an admin of tA
\* (with and without the X-Client-Id header), by a member of tA and by an
\* admin the users table does not know yet; the voices exist already
AuthCallers ==
    {OrgAdmin("tA"), [OrgAdmin("tA") EXCEPT !.x_client_id = "tB"], OrgMember("tA"), [OrgAdmin("tA") EXCEPT !.token.user_id = "u2", !.token.user_data = NoUser]}

NextAuth ==
    \E r \in Reqs :
        \/ Retire(r)
        \/ \E c \in AuthCallers, v \in VoiceIds : create_agent_check(r, c, "none", v)
        \/ create_agent_validate(r)
        \/ \E o \in Outcomes : create_agent_remote(r, o)
        \/ \E c \in AuthCallers, v \in VoiceIds : create_agent_legacy_check(r, c, "none", v)
        \/ create_agent_legacy_insert(r)
        \/ \E o \in Outcomes : create_agent_legacy_sync(r, o)
        \/ \E c \in AuthCallers : create_draft_agent_legacy(r, c)
        \/ \E c \in AuthCallers, a \in AgentIds : delete_agent(r, c, a)
        \/ \E o \in Outcomes : delete_agent_returns(r, o)
        \/ \E c \in AuthCallers, v \in VoiceIds : update_voice(r, c, v)
        \/ \E body \in VoiceBodies : update_voice_body(r, body)
        \/ \E c \in AuthCallers, v \in VoiceIds : delete_voice(r, c, v)
SpecAuth == InitVoices /\ [][NextAuth]_vars

\* the create endpoints of voices and agents called by an admin of tA without
\* idempotency key, with provider calls that may also time out
NextTimeout ==
    \E r \in Reqs :
        \/ Retire(r)
        \/ \E st \in {"native", "external"} : create_voice(r, OrgAdmin("tA"), st)
        \/ \E o \in CallOutcomes : create_voice_elevenlabs(r, o)
        \/ \E o \in CallOutcomes : create_voice_ultravox(r, o)
        \/ create_voice_clone(r, OrgAdmin("tA"))
        \/ \E o \in CallOutcomes : clone_to_elevenlabs(r, o)
        \/ \E o \in CallOutcomes : create_voice_clone_import(r, o)
        \/ \E v \in VoiceIds : create_agent_check(r, OrgAdmin("tA"), "none", v)
        \/ create_agent_validate(r)
        \/ \E o \in CallOutcomes : create_agent_remote(r, o)
        \/ \E v \in VoiceIds : create_agent_legacy_check(r, OrgAdmin("tA"), "none", v)
        \/ create_agent_legacy_insert(r)
        \/ \E o \in CallOutcomes : create_agent_legacy_sync(r, o)
        \/ create_draft_agent(r, OrgAdmin("tA"))
        \/ create_draft_agent_validate(r)
        \/ \E o \in CallOutcomes : create_draft_agent_remote(r, o)
SpecTimeout == Init /\ [][NextTimeout]_vars

\* create requests of tA, by either handler, whose provider call succeeds
\* unless the request is cancelled while it waits, and the on-demand sync of the rows they leave; tA
\* owns every voice
InitRecovery ==
    /\ agents = [a \in AgentIds |-> NoAgent]
    /\ voices = [v \in VoiceIds |-> VoiceRow("tA", 1)]
    /\ remote = {}
    /\ idem = [t \in Tenants |-> [k \in Keys \ {"none"} |-> NoIdem]]
    /\ nextAgent = 1
    /\ nextVoice = MaxVoices + 1
    /\ nextRemote = 1
    /\ reqs = [r \in Reqs |-> IdleReq]
    /\ InitExt

NextRecovery ==
    \E r \in Reqs :
        \/ Retire(r)
        \/ create_agent_check(r, OrgAdmin("tA"), "none", 1)
        \/ create_agent_validate(r)
        \/ create_agent_remote(r, "ok")
        \/ \E o \in {"ok", "fail"} : create_agent_cancelled(r, o)
        \/ create_agent_legacy_check(r, OrgAdmin("tA"), "none", 1)
        \/ create_agent_legacy_insert(r)
        \/ create_agent_legacy_sync(r, "ok")
        \/ \E o \in {"ok", "fail"} : create_agent_legacy_cancelled(r, o)
        \/ \E a \in AgentIds : sync_agent(r, OrgAdmin("tA"), a)
        \/ \E o \in {"ok", "fail"} : sync_agent_returns(r, o)
SpecRecovery == InitRecovery /\ [][NextRecovery]_vars

\* a catalogue of synced agents and imported voices, odd ids of tA and even
\* ids of tB; an admin of tA updates, deletes and test-calls agents and updates
\* and deletes voices, by ids of either tenant
InitSynced ==
    /\ agents = [a \in AgentIds |->
                   AgentRow(TenantOf(a), "active", IF a <= MaxRemote THEN a ELSE None, 1)]
    /\ voices = [v \in VoiceIds |-> VoiceRow(TenantOf(v), 1)]
    /\ remote = {a \in AgentIds : a <= MaxRemote}
    /\ idem = [t \in Tenants |-> [k \in Keys \ {"none"} |-> NoIdem]]
    /\ nextAgent = MaxAgents + 1
    /\ nextVoice = MaxVoices + 1
    /\ nextRemote = MaxRemote + 1
    /\ reqs = [r \in Reqs |-> IdleReq]
    /\ InitExt

NextMissing ==
    \E r \in Reqs :
        \/ Retire(r)
        \/ \E a \in AgentIds : update_agent(r, OrgAdmin("tA"), a, 1)
        \/ update_agent_validate(r)
        \/ update_agent_sync(r, "ok")
        \/ \E a \in AgentIds : delete_agent(r, OrgAdmin("tA"), a)
        \/ \E o \in {"ok", "fail"} : delete_agent_returns(r, o)
        \/ \E a \in AgentIds : create_test_call(r, OrgAdmin("tA"), a)
        \/ \E o \in {"ok", "fail"} : create_test_call_returns(r, o)
        \/ \E v \in VoiceIds : update_voice(r, OrgAdmin("tA"), v)
        \/ update_voice_body(r, [name |-> 1])
        \/ \E v \in VoiceIds : delete_voice(r, OrgAdmin("tA"), v)
SpecMissing == InitSynced /\ [][NextMissing]_vars

\* the messages of the agent's sessions, with or without a suggestion, before
\* any was approved or rejected; no catalogue row
InitSuggestions ==
    /\ agents = [a \in AgentIds |-> NoAgent]
    /\ voices = [v \in VoiceIds |-> NoVoice]
    /\ remote = {}
    /\ idem = [t \in Tenants |-> [k \in Keys \ {"none"} |-> NoIdem]]
    /\ nextAgent = 1 /\ nextVoice = 1 /\ nextRemote = 1
    /\ reqs = [r \in Reqs |-> IdleReq]
    /\ messages \in [MessageIds -> {Message(TRUE), Message(FALSE)}]
    /\ system_prompt = None
    /\ prompt_log = {}
    /\ InitBeside

\* no request is between two of its steps
Quiet == \A q \in Reqs : reqs[q].pc \in {"idle", "done"}

\* a call made when every earlier call has returned
approve_in_turn(r, c, m) == Quiet /\ approve_prompt_suggestion(r, c, m)
reject_in_turn(r, c, m)  == Quiet /\ reject_prompt_suggestion(r, c, m)

\* approve and reject called one after the other by an admin of the agent's
\* client; the write of the approval state may fail
NextSuggestSeq ==
    \E r \in Reqs :
        \/ Retire(r)
        \/ \E m \in MessageIds : approve_in_turn(r, OrgAdmin("tA"), m)
        \/ approve_apply(r, "ok")
        \/ \E w \in {"ok", "fail"} : approve_mark(r, w)
        \/ \E m \in MessageIds : reject_in_turn(r, OrgAdmin("tA"), m)
        \/ \E w \in {"ok", "fail"} : reject_mark(r, w)
SpecSuggestSeq == InitSuggestions /\ [][NextSuggestSeq]_vars

\* approve and reject called together, by an admin and by a member
NextSuggest ==
    \E r \in Reqs :
        \/ Retire(r)
        \/ \E m \in MessageIds, c \in {OrgAdmin("tA"), OrgMember("tA")} :
               approve_prompt_suggestion(r, c, m)
        \/ \E w \in {"ok", "fail"} : approve_apply(r, w)
        \/ \E w \in {"ok", "fail"} : approve_mark(r, w)
        \/ \E m \in MessageIds, c \in {OrgAdmin("tA"), OrgMember("tA")} :
               reject_prompt_suggestion(r, c, m)
        \/ \E w \in {"ok", "fail"} : reject_mark(r, w)
SpecSuggest == InitSuggestions /\ [][NextSuggest]_vars

\* approve and reject called together by an admin, every write succeeding
NextSuggestRace ==
    \E r \in Reqs :
        \/ Retire(r)
        \/ \E m \in MessageIds : approve_prompt_suggestion(r, OrgAdmin("tA"), m)
        \/ approve_apply(r, "ok")
        \/ approve_mark(r, "ok")
        \/ \E m \in MessageIds : reject_prompt_suggestion(r, OrgAdmin("tA"), m)
        \/ reject_mark(r, "ok")
SpecSuggestRace == InitSuggestions /\ [][NextSuggestRace]_vars

\* the key cache alone: token verifications fetching the key set while the
\* clock moves and Clerk rotates its keys
NextJwks ==
    \/ \E r \in Reqs : get_clerk_jwks(r)
    \/ \E r \in Reqs, o \in {"ok", "fail"} : get_clerk_jwks_returns(r, o)
    \/ Tick
    \/ \E ks \in {{1}, {2}, {1, 2}} : rotate_keys(ks)
    \/ \E r \in Reqs : Retire(r)

SpecJwks == Init /\ [][NextJwks]_vars

\* the users of two organisations signing in, from any stored roles
InitPromotion ==
    /\ agents = [a \in AgentIds |-> NoAgent]
    /\ voices = [v \in VoiceIds |-> NoVoice]
    /\ remote = {}
    /\ idem = [t \in Tenants |-> [k \in Keys \ {"none"} |-> NoIdem]]
    /\ nextAgent = 1 /\ nextVoice = 1 /\ nextRemote = 1
    /\ reqs = [r \in Reqs |-> IdleReq]
    /\ messages = [m \in MessageIds |-> Message(TRUE)]
    /\ system_prompt = None
    /\ prompt_log = {}
    /\ clerk_jwks_cache = NoJwks
    /\ clerk_jwks_cache_expiry = None
    /\ clerk_keys = {1}
    /\ now = 0
    /\ users \in [UserIds -> [role : {"client_user", "client_admin"}, client_id : Tenants]]
    /\ promoted = {}
    /\ contact_folders = [f \in FolderIds |-> [client_id |-> "tA"]]
    /\ contacts = [k \in ContactIds |-> NoContact]
    /\ issued = {}
    /\ files = {<<"uploads", "f1">>}
    /\ served = {}

NextPromotion ==
    \/ \E r \in Reqs, u \in UserIds, clerk_role \in {"org:admin", "org:member"} :
           get_current_user_reads(r, u, clerk_role)
    \/ \E r \in Reqs : ensure_admin_role_reads(r)
    \/ \E r \in Reqs, w \in {"ok", "fail"} : ensure_admin_role_promotes(r, w)
    \/ \E r \in Reqs : Retire(r)

SpecPromotion == InitPromotion /\ [][NextPromotion]_vars

\* the contacts of one organisation: bulk creates and the delete of the
\* folder, by the admins of two organisations
NextContacts ==
    \/ \E r \in Reqs, t \in Tenants, f \in FolderIds :
           delete_contact_folder(r, OrgAdmin(t), f)
    \/ \E r \in Reqs : delete_folder_contacts(r)
    \/ \E r \in Reqs : delete_folder_row(r)
    \/ \E r \in Reqs, t \in Tenants, f \in FolderIds, n \in 0 .. MaxContacts :
           bulk_create_contacts(r, OrgAdmin(t), f, n)
    \/ \E r \in Reqs : bulk_insert_contact(r)
    \/ \E r \in Reqs : Retire(r)

SpecContacts == Init /\ [][NextContacts]_vars

\* the file endpoint: urls are handed out, clients present them on GET and
\* PUT with parameters of their choice, the clock moves
NextFiles ==
    \/ \E operation \in {"get", "put"}, b \in {"uploads", "recordings"}, k \in FileKeys, e \in Times :
           generate_presigned_url(operation, b, k, e)
    \/ \E q \in FileQueries : serve_file(q)
    \/ \E q \in FileQueries : upload_file(q)
    \/ Tick

SpecFiles == Init /\ [][NextFiles]_vars

\* ================================================================ claims
AgentCreateOps == {"create", "create_legacy", "create_draft", "create_draft_legacy"}
VoiceCreateOps == {"create_voice", "voice_clone"}

RowOf(r) == SelectOne(agents, reqs[r].id, reqs[r].tenant, NoAgent)

\* C1: a create-agent request whose remote create call returned id R has, once
\* completed, a local row with status active and remote id R, which a GET by
\* the same tenant reads; on every create path
C1_SagaSuccess ==
    \A r \in Reqs :
        (reqs[r].pc = "done" /\ reqs[r].op \in AgentCreateOps /\ reqs[r].rid # None)
        => (RowOf(r).status = "active" /\ RowOf(r).remote = reqs[r].rid)

\* C4: a create-agent request whose remote create call failed has, once
\* completed, exactly one local row, with status failed and no remote id
C4_DegradeToFailed ==
    \A r \in Reqs :
        (reqs[r].pc = "done" /\ reqs[r].op \in AgentCreateOps
            /\ reqs[r].rout \in {"fail", "noid"})
        => (RowOf(r).status = "failed" /\ RowOf(r).remote = None)

\* C6: a create-agent request without a voice reference makes no remote create
\* call, leaves one row with status draft and no remote id, and raises no error
C6_IneligibleIsDraft ==
    \A r \in Reqs :
        (reqs[r].pc = "done" /\ reqs[r].op \in AgentCreateOps /\ reqs[r].voice = None
            /\ reqs[r].seen \in {"none", "absent"})
        => (reqs[r].resp.kind = "ok" /\ reqs[r].rcalls = 0 /\ reqs[r].inserts = 1
            /\ RowOf(r).status = "draft" /\ RowOf(r).remote = None)

\* C7: while the remote create call of a create request is in flight, the local
\* row is already there, with status creating or draft; for agents and voices
C7_PersistBeforeRemote ==
    \A r \in Reqs :
        /\ (reqs[r].op \in AgentCreateOps /\ reqs[r].pc \in {"await_create", "await_sync"})
           => RowOf(r).status \in {"creating", "draft"}
        /\ (reqs[r].op \in VoiceCreateOps /\ reqs[r].pc \in {"await_clone", "await_import"})
           => (reqs[r].id # None
               /\ SelectOne(voices, reqs[r].id, reqs[r].tenant, NoVoice).status
                      \in {"creating", "draft"})

\* a voice create request that ended in ProviderError
FailedVoiceCreate(r) ==
    /\ reqs[r].pc = "done" /\ reqs[r].op \in VoiceCreateOps
    /\ reqs[r].resp.kind = "ProviderError"

\* C5: a voice create whose provider call failed leaves no row for its id, and a
\* GET of that id by the same tenant answers NotFoundError
C5_VoiceRollback ==
    \A r \in Reqs :
        FailedVoiceCreate(r)
        => /\ reqs[r].inserts = 0
           /\ reqs[r].id # None => voices[reqs[r].id] = NoVoice
           /\ \A g \in Reqs :
                 (reqs[g].pc = "done" /\ reqs[g].op = "get_voice" /\ reqs[r].id # None
                     /\ reqs[g].id = reqs[r].id /\ reqs[g].tenant = reqs[r].tenant)
                 => reqs[g].resp.kind = "NotFoundError"

\* a failed voice create and a GET of its id that was answered NotFoundError
C5_Witness ==
    \E r, g \in Reqs :
        /\ FailedVoiceCreate(r) /\ reqs[r].id # None
        /\ reqs[g].pc = "done" /\ reqs[g].op = "get_voice"
        /\ reqs[g].id = reqs[r].id /\ reqs[g].tenant = reqs[r].tenant
        /\ reqs[g].resp.kind = "NotFoundError"

\* C8: a create request that finds its key stored with an equal fingerprint is
\* answered from the store: it inserts nothing, calls the provider never, takes
\* no new id and runs no further step
C8_ReplayNoSideEffects ==
    \A r \in Reqs :
        reqs[r].seen = "equal"
        => /\ reqs[r].pc = "done"
           /\ reqs[r].inserts = 0 /\ reqs[r].rcalls = 0 /\ reqs[r].id = None
           /\ reqs[r].resp = Replay(idem[reqs[r].tenant][reqs[r].key])

\* a replayed create of create.py, answered with the one row the key produced
C8_Witness ==
    \E r \in Reqs :
        /\ reqs[r].pc = "done" /\ reqs[r].op = "create" /\ reqs[r].seen = "equal"
        /\ reqs[r].resp.data.id # None
        /\ agents[reqs[r].resp.data.id].tenant = reqs[r].tenant
        /\ Cardinality({a \in AgentIds : agents[a] # NoAgent}) = 1

\* C9: the replay of a create request carries the status code and the body of
\* the response the first request received
C9_ReplayIdentical ==
    \A r, q \in Reqs :
        (/\ reqs[r].pc = "done" /\ reqs[r].stored
         /\ reqs[q].pc = "done" /\ reqs[q].seen = "equal"
         /\ reqs[q].tenant = reqs[r].tenant /\ reqs[q].key = reqs[r].key)
        => (reqs[q].resp.code = reqs[r].resp.code
            /\ reqs[q].resp.data = reqs[r].resp.data)

\* C10: a stored idempotency record never changes, and a create request that
\* finds its key stored with a different fingerprint ends with
\* IdempotencyConflictError, no insert, no provider call and the store as it was
C10_ConflictRejected ==
    [][/\ \A t \in Tenants, k \in Keys \ {"none"} :
              idem[t][k] # NoIdem => idem'[t][k] = idem[t][k]
       /\ \A r \in Reqs :
              (reqs[r].pc # "done" /\ reqs'[r].pc = "done" /\ reqs'[r].seen = "different")
              => (/\ reqs'[r].resp.kind = "IdempotencyConflictError"
                  /\ reqs'[r].inserts = 0 /\ reqs'[r].rcalls = 0
                  /\ UNCHANGED <<agents, remote, idem>>)]_vars

\* C2: every row with status active, agent or voice, has a remote id
C2_ActiveHasRemote ==
    /\ \A a \in AgentIds : agents[a].status = "active" => agents[a].remote # None
    /\ \A v \in VoiceIds : voices[v].status = "active" => voices[v].remote # None

Terminal == {"active", "failed", "draft"}

\* C11: when a create request stores its response under the idempotency key, the
\* agent row and the stored body are in a terminal status, never creating
C11_StoredAfterCompletion ==
    [][\A r \in Reqs :
          (reqs[r].pc = "store" /\ reqs'[r].pc = "done")
          => (/\ SelectOne(agents', reqs[r].id, reqs[r].tenant, NoAgent).status \in Terminal
              /\ idem'[reqs[r].tenant][reqs[r].key].data.status \in Terminal)]_vars

\* a keyed create request whose provider call failed
FailedKeyedCreate(rq) ==
    /\ rq.pc = "done" /\ rq.op \in AgentCreateOps /\ rq.key # "none"
    /\ rq.rout \in {"fail", "noid"}

\* C12: a keyed create request that ends in a provider failure has its outcome
\* stored, and an identical request that starts afterwards runs nothing again
C12_FailureIsStored ==
    [][\A r \in Reqs :
          /\ (reqs[r].pc # "done" /\ FailedKeyedCreate(reqs'[r]))
             => idem'[reqs[r].tenant][reqs[r].key] # NoIdem
          /\ \A q \in Reqs :
                (/\ FailedKeyedCreate(reqs[r])
                 /\ reqs[q].pc = "idle" /\ reqs'[q].pc # "idle"
                 /\ reqs'[q].tenant = reqs[r].tenant /\ reqs'[q].key = reqs[r].key
                 /\ reqs'[q].voice = reqs[r].voice)
                => (reqs'[q].pc = "done" /\ reqs'[q].seen # "absent")]_vars

\* C13: a keyed create request inserts at most one row and calls the provider at
\* most once, also when duplicates run together; one that starts after the
\* response for its (tenant, key, body) was stored gets that response and
\* changes nothing
C13_ConcurrentDuplicates ==
    [][\A q \in Reqs :
          /\ reqs'[q].inserts <= 1 /\ reqs'[q].rcalls <= 1
          /\ (/\ reqs[q].pc = "idle" /\ reqs'[q].pc # "idle" /\ reqs'[q].key # "none"
              /\ IdemLookup(reqs'[q].tenant, reqs'[q].key, reqs'[q].voice) = "equal")
             => (/\ reqs'[q].pc = "done"
                 /\ reqs'[q].resp = Replay(idem[reqs'[q].tenant][reqs'[q].key])
                 /\ reqs'[q].inserts = 0 /\ reqs'[q].rcalls = 0
                 /\ UNCHANGED <<agents, remote, idem, nextAgent, nextRemote>>)]_vars

\* two duplicates ran together and each created a row; a later duplicate was
\* answered from the store
C13_Witness ==
    \E r, q \in Reqs :
        /\ reqs[r].pc = "done" /\ reqs[r].op = "create" /\ reqs[r].key # "none"
        /\ reqs[r].inserts = 1 /\ reqs[r].rcalls = 1
        /\ reqs[q].pc = "done" /\ reqs[q].seen = "equal"
        /\ reqs[q].tenant = reqs[r].tenant /\ reqs[q].key = reqs[r].key
        /\ Cardinality({a \in AgentIds : agents[a].tenant = reqs[r].tenant}) = 2

\* the request that takes the step, if the step is not the end of a request
Stepping(q) == reqs'[q] # reqs[q] /\ reqs'[q].pc # "idle"

C16_EveryAccessScoped == \A r \in Reqs : reqs[r].bare = 0

\* C17: no agent or voice row is stored with an empty tenant column, and a
\* create request whose caller resolves to no tenant ends in
\* TenantResolutionError without an insert
C17_NoEmptyTenant ==
    /\ \A a \in AgentIds : agents[a] # NoAgent => agents[a].tenant # ""
    /\ \A v \in VoiceIds : voices[v] # NoVoice => voices[v].tenant # ""
    /\ \A r \in Reqs :
          (reqs[r].op \in AgentCreateOps /\ reqs[r].tenant = "")
          => (/\ reqs[r].pc = "done" /\ reqs[r].inserts = 0
              /\ reqs[r].resp = Err("TenantResolutionError"))

\* C18: a request that carries a non-empty X-Client-Id header works on that
\* tenant: the header comes before the principal's claim
C18_ExplicitFirst ==
    \A r \in Reqs :
        reqs[r].explicit \notin {"none", ""} => reqs[r].tenant = reqs[r].explicit

MutatingOps ==
    AgentCreateOps \cup VoiceCreateOps
    \cup {"update", "update_legacy", "delete", "sync", "update_voice", "delete_voice"}

\* C19: a request to a mutating endpoint by a caller who is no admin has ended
\* in ForbiddenError, has written nothing and has called the provider not once
C19_PermissionFirst ==
    \A r \in Reqs :
        (reqs[r].op \in MutatingOps /\ reqs[r].role \notin AdminRoles)
        => (/\ reqs[r].pc = "done" /\ reqs[r].resp = Err("ForbiddenError")
            /\ reqs[r].inserts = 0 /\ reqs[r].rcalls = 0 /\ reqs[r].bare = 0)

\* C20: a create request whose provider create call failed (an error, or an
\* answer without id) ended in ProviderError, never in a success response
C20_ProviderFailureSurfaces ==
    \A r \in Reqs :
        (reqs[r].pc = "done" /\ reqs[r].op \in AgentCreateOps /\ reqs[r].rout \in {"fail", "noid"})
        => reqs[r].resp = Err("ProviderError")

\* a create request of the agent type whose provider create call failed
FailedAgentCreate(r) ==
    reqs[r].pc = "done" /\ reqs[r].op \in AgentCreateOps /\ reqs[r].rout = "fail"

\* C21: one failure policy per resource type: any two agent create requests
\* whose provider call failed leave the same local outcome (no row, or a row of
\* the same status), and any two such voice create requests do as well
C21_OnePolicyPerType ==
    /\ \A r, q \in Reqs :
          (FailedAgentCreate(r) /\ FailedAgentCreate(q)) => RowOf(r).status = RowOf(q).status
    /\ \A r, q \in Reqs :
          (FailedVoiceCreate(r) /\ FailedVoiceCreate(q))
          => SelectOne(voices, reqs[r].id, reqs[r].tenant, NoVoice).status
             = SelectOne(voices, reqs[q].id, reqs[q].tenant, NoVoice).status

\* C22: the step that ends the provider call of an agent create re-reads the
\* row by (id, tenant); when the provider call succeeded and the row is gone the
\* request ends in ConsistencyError, and a success response always carries the
\* row
C22_RereadOrConsistencyError ==
    [][\A r \in Reqs :
          (reqs[r].pc \in {"await_create", "await_sync"} /\ reqs'[r].pc \in {"done", "store"}
           /\ reqs'[r].op \in AgentCreateOps)
          => /\ (/\ reqs'[r].rout = "ok"
                 /\ SelectOne(agents', reqs'[r].id, reqs'[r].tenant, NoAgent) = NoAgent)
                => reqs'[r].resp = Err("ConsistencyError")
             /\ reqs'[r].resp.kind = "ok" => reqs'[r].resp.data # NoData]_vars

UpdateOps == {"update", "update_legacy"}

\* C23: when the provider call of an update fails, the step that takes the
\* failure leaves the row (if it still exists) with status failed and with the
\* field values the update had written before the call
C23_UpdateDegrades ==
    [][\A r \in Reqs :
          (/\ reqs[r].op \in UpdateOps /\ reqs[r].pc \in {"await_sync", "await_update"}
           /\ reqs'[r].pc = "done" /\ reqs'[r].rout = "fail"
           /\ SelectOne(agents, reqs[r].id, reqs[r].tenant, NoAgent) # NoAgent)
          => LET old == SelectOne(agents, reqs[r].id, reqs[r].tenant, NoAgent)
                 new == SelectOne(agents', reqs[r].id, reqs[r].tenant, NoAgent)
             IN new.status = "failed" /\ new.voice = old.voice]_vars

\* C24: a row that has a remote id is removed only by a request that was
\* waiting for the provider's answer to its delete of that remote id, and once
\* a delete has answered with success the row is gone for its tenant
C24_DeleteRemoteThenLocal ==
    [][\A q \in Reqs : Stepping(q) =>
          /\ \A a \in AgentIds :
                (agents[a] # NoAgent /\ agents'[a] = NoAgent /\ agents[a].remote # None)
                => (reqs[q].pc = "await_delete" /\ reqs[q].rid = agents[a].remote)
          /\ \A v \in VoiceIds :
                (voices[v] # NoVoice /\ voices'[v] = NoVoice /\ voices[v].remote # None)
                => (reqs[q].pc = "await_delete" /\ reqs[q].rid = voices[v].remote)
          /\ (reqs'[q].pc = "done" /\ reqs'[q].op = "delete" /\ reqs'[q].resp.kind = "ok")
                => SelectOne(agents', reqs'[q].id, reqs'[q].tenant, NoAgent) = NoAgent
          /\ (reqs'[q].pc = "done" /\ reqs'[q].op = "delete_voice" /\ reqs'[q].resp.kind = "ok")
                => SelectOne(voices', reqs'[q].id, reqs'[q].tenant, NoVoice) = NoVoice]_vars

CreateOpsAll == AgentCreateOps \cup VoiceCreateOps

\* C25: a create request of a voice or an agent one of whose provider calls
\* timed out has ended in ProviderError, and the row of its id is not active
C25_TimeoutIsProviderError ==
    \A r \in Reqs :
        (reqs[r].pc = "done" /\ reqs[r].op \in CreateOpsAll /\ reqs[r].rout = "timeout")
        => /\ reqs[r].resp = Err("ProviderError")
           /\ reqs[r].op \in AgentCreateOps => RowOf(r).status # "active"
           /\ reqs[r].op \in VoiceCreateOps
              => SelectOne(voices, reqs[r].id, reqs[r].tenant, NoVoice).status # "active"

\* C26: a create request of an agent or a voice whose provider create call
\* answered 2xx without an identifier has ended in ProviderError, and the row
\* of its id, if there is one, is not active
C26_MissingIdIsProviderFailure ==
    \A r \in Reqs :
        (reqs[r].pc = "done" /\ reqs[r].op \in CreateOpsAll /\ reqs[r].rout = "noid")
        => /\ reqs[r].resp = Err("ProviderError")
           /\ reqs[r].op \in AgentCreateOps => RowOf(r).status \notin {"active"}
           /\ reqs[r].op \in VoiceCreateOps
              => SelectOne(voices, reqs[r].id, reqs[r].tenant, NoVoice).status \notin {"active"}

\* a sync request that returns in this step
SyncReturns(q) ==
    reqs[q].op = "sync" /\ reqs[q].pc = "await_sync" /\ reqs'[q].pc = "done"

C28_SyncIdempotent ==
    [][\A q \in Reqs :
          (/\ SyncReturns(q)
           /\ reqs[q].mode = "update"
           /\ SelectOne(agents, reqs[q].id, reqs[q].tenant, NoAgent).remote = reqs[q].rid)
          => /\ agents' = agents
             /\ remote' = remote /\ nextRemote' = nextRemote]_vars

\* a second sync of a row has returned with success, and the row holds the
\* remote id and the status it held before
C28_Witness ==
    \E q \in Reqs :
        /\ reqs[q].pc = "done" /\ reqs[q].op = "sync" /\ reqs[q].mode = "update"
        /\ reqs[q].rout = "ok"
        /\ RowOf(q).status = "active" /\ RowOf(q).remote = reqs[q].rid

AgentTargetOps == {"update", "update_legacy", "delete", "test_call"}
VoiceTargetOps == {"update_voice", "delete_voice"}

\* the request that enters in this step names an id that has no row under the
\* caller's tenant
TargetMissing(q) ==
    /\ reqs[q].pc = "idle" /\ reqs'[q].pc # "idle" /\ reqs'[q].id # None
    /\ \/ /\ reqs'[q].op \in AgentTargetOps
          /\ SelectOne(agents, reqs'[q].id, reqs'[q].tenant, NoAgent) = NoAgent
       \/ /\ reqs'[q].op \in VoiceTargetOps
          /\ SelectOne(voices, reqs'[q].id, reqs'[q].tenant, NoVoice) = NoVoice

\* C29: an update, delete or test call of an agent, and an update or delete of
\* a voice, whose id has no row under the caller's tenant ends at once in
\* NotFoundError: it writes no row and calls no provider
C29_MissingIsNotFound ==
    [][\A q \in Reqs :
          TargetMissing(q)
          => /\ reqs'[q].pc = "done" /\ reqs'[q].resp = Err("NotFoundError")
             /\ reqs'[q].rcalls = 0 /\ reqs'[q].inserts = 0 /\ reqs'[q].bare = 0
             /\ agents' = agents /\ voices' = voices /\ remote' = remote]_vars

\* a test call and a delete have each named an agent of the other tenant and
\* ended in NotFoundError, and that agent is still there
C29_Witness ==
    \E q, r \in Reqs :
        /\ reqs[q].pc = "done" /\ reqs[q].op = "test_call"
        /\ reqs[r].pc = "done" /\ reqs[r].op = "delete" /\ reqs[r].id = reqs[q].id
        /\ reqs[q].resp = Err("NotFoundError") /\ reqs[r].resp = Err("NotFoundError")
        /\ agents[reqs[q].id].tenant \notin {reqs[q].tenant, NoAgent.tenant}

\* a create request that has ended in an error
FailedCreate(r) ==
    /\ reqs[r].pc = "done" /\ reqs[r].op \in CreateOpsAll
    /\ reqs[r].resp.kind \notin {"ok", NoResp.kind}

\* C30: a create request that ended in an error has left nothing at a
\* provider that no local row holds: the agent the provider made for it is the
\* remote id of its row, and the voice ElevenLabs made for it belongs to a row
\* of its id
C30_NoOrphanAfterFailedCreate ==
    \A r \in Reqs :
        FailedCreate(r)
        => /\ (reqs[r].op \in AgentCreateOps /\ reqs[r].rid # None)
              => RowOf(r).remote = reqs[r].rid
           /\ (reqs[r].op \in VoiceCreateOps /\ reqs[r].elevenlabs_voice_id # None)
              => SelectOne(voices, reqs[r].id, reqs[r].tenant, NoVoice) # NoVoice

\* a request whose provider call created a remote agent for the row of its id
MirrorCreated(r) ==
    /\ reqs[r].pc = "done" /\ reqs[r].op \in AgentCreateOps \cup {"sync"}
    /\ reqs[r].mode = "create" /\ reqs[r].rout = "ok"

\* C31: no two requests have each created a remote agent for the same local
\* agent, and the remote id a row holds is the id of an agent the provider has
C31_OneMirrorPerAgent ==
    /\ \A r, q \in Reqs :
          (/\ MirrorCreated(r) /\ MirrorCreated(q)
           /\ reqs[r].id = reqs[q].id /\ reqs[r].tenant = reqs[q].tenant)
          => r = q
    /\ \A a \in AgentIds : agents[a].remote # None => agents[a].remote \in remote

\* C32: when a sync request returns with the provider's success, the row it
\* names is active and holds a remote id, whatever its status was before
C32_SyncedIsActive ==
    [][\A q \in Reqs :
          (/\ SyncReturns(q) /\ reqs'[q].rout = "ok"
           /\ SelectOne(agents, reqs[q].id, reqs[q].tenant, NoAgent) # NoAgent)
          => /\ SelectOne(agents', reqs[q].id, reqs[q].tenant, NoAgent).status = "active"
             /\ SelectOne(agents', reqs[q].id, reqs[q].tenant, NoAgent).remote # None]_vars

\* the request that enters in this step is an approve or a reject of a message
\* whose stored approval state is st
Enters(q, op, st) ==
    /\ reqs[q].pc = "idle" /\ reqs'[q].op = op /\ reqs'[q].role \in AdminRoles
    /\ get_message_with_suggestion(reqs'[q].id).approval_state = st

\* C33: under approve and reject calls made one after the other the approval
\* state only goes from pending to approved or to rejected; approve of an
\* approved or rejected suggestion and reject of an approved one end in
\* ValidationError, reject of a rejected one ends in success, all without a write
C33_ApprovalOneWay ==
    [][/\ \A m \in MessageIds :
            messages'[m].approval_state # messages[m].approval_state
            => /\ messages[m].approval_state = "pending"
               /\ messages'[m].approval_state \in {"approved", "rejected"}
       /\ \A q \in Reqs :
            /\ (Enters(q, "approve", "approved") \/ Enters(q, "approve", "rejected")
                  \/ Enters(q, "reject", "approved"))
               => /\ reqs'[q].pc = "done" /\ reqs'[q].resp = Err("ValidationError")
                  /\ UNCHANGED ext
            /\ Enters(q, "reject", "rejected")
               => /\ reqs'[q].pc = "done" /\ reqs'[q].resp = Rejected(reqs'[q].id)
                  /\ UNCHANGED ext]_vars

\* a suggestion is approved, and a reject and an approve of it have each been
\* refused
C33_Witness ==
    \E q, r \in Reqs :
        /\ reqs[q].pc = "done" /\ reqs[q].op = "reject" /\ reqs[q].seen = "approved"
        /\ reqs[r].pc = "done" /\ reqs[r].op = "approve" /\ reqs[r].seen = "approved"
        /\ reqs[r].id = reqs[q].id
        /\ reqs[q].resp = Err("ValidationError") /\ reqs[r].resp = Err("ValidationError")
        /\ messages[reqs[q].id].approval_state = "approved"

\* C34: once every approve and reject request has returned, a suggestion has
\* been written to the agent's system prompt if and only if its approval state
\* is approved; a rejected suggestion was never written to it
C34_AppliedIffApproved ==
    Quiet => \A m \in MessageIds :
                 (m \in prompt_log) <=> (messages[m].approval_state = "approved")

\* C35: when an approve request returns its success response, the agent's
\* system prompt is the suggestion and the stored approval state is approved
C35_ApprovedIsStored ==
    [][\A q \in Reqs :
          (/\ reqs[q].op = "approve" /\ reqs[q].pc # "done"
           /\ reqs'[q].pc = "done" /\ reqs'[q].resp.kind = "ok")
          => /\ system_prompt' = reqs[q].id
             /\ messages'[reqs[q].id].approval_state = "approved"]_vars

\* C36: get_clerk_jwks serves the cached key set without a fetch while the
\* cache is unexpired and sends the fetch otherwise; a successful fetch
\* replaces cache and expiry with what Clerk published and now + CacheTtl; a
\* failed fetch leaves cache and expiry as they are, returns the cached key set
\* when there is one and raises UnauthorizedError when there is none; a key set
\* once cached is never cleared.
JwksEnters(q)  == reqs[q].pc = "idle" /\ reqs'[q].pc # "idle" /\ reqs'[q].op = "jwks"
JwksReturns(q) == reqs[q].pc = "await_jwks" /\ reqs'[q].pc = "done"
C36_JwksCache ==
    [][/\ clerk_jwks_cache.present => clerk_jwks_cache'.present
       /\ \A q \in Reqs :
            /\ JwksEnters(q) /\ CacheFresh =>
                 /\ reqs'[q].pc = "done" /\ reqs'[q].rcalls = 0
                 /\ reqs'[q].resp.kind = "ok" /\ reqs'[q].rows = clerk_jwks_cache.keys
                 /\ UNCHANGED <<clerk_jwks_cache, clerk_jwks_cache_expiry>>
            /\ JwksEnters(q) /\ ~CacheFresh =>
                 reqs'[q].pc = "await_jwks" /\ reqs'[q].rcalls = 1
            /\ JwksReturns(q) /\ reqs'[q].rout = "ok" =>
                 /\ clerk_jwks_cache' = Jwks(clerk_keys)
                 /\ clerk_jwks_cache_expiry' = now + CacheTtl
                 /\ reqs'[q].resp.kind = "ok" /\ reqs'[q].rows = clerk_keys
            /\ JwksReturns(q) /\ reqs'[q].rout = "fail" =>
                 /\ UNCHANGED <<clerk_jwks_cache, clerk_jwks_cache_expiry>>
                 /\ clerk_jwks_cache.present =>
                      reqs'[q].resp.kind = "ok" /\ reqs'[q].rows = clerk_jwks_cache.keys
                 /\ ~clerk_jwks_cache.present =>
                      reqs'[q].resp.kind = "UnauthorizedError"]_vars

\* a fetch failed after the expiry and the stale key set, which is no longer
\* what Clerk publishes, was returned
C36_Witness ==
    \E q \in Reqs :
        /\ reqs[q].op = "jwks" /\ reqs[q].pc = "done" /\ reqs[q].rout = "fail"
        /\ reqs[q].resp.kind = "ok" /\ reqs[q].rows = clerk_jwks_cache.keys
        /\ clerk_jwks_cache.present /\ now >= clerk_jwks_cache_expiry
        /\ clerk_jwks_cache.keys # clerk_keys

\* C37: the first-user rule promotes a user only when no other user of the
\* organisation holds client_admin, so of the users of one organisation at
\* most one is ever promoted by the rule, and a user promoted by it is the
\* only client_admin the rule has made there.
C37_AtMostOnePromoted ==
    \A t \in Tenants : Cardinality({u \in promoted : users[u].client_id = t}) <= 1

\* C38: once delete_contact_folder has completed, which is when the folder
\* row is gone, no contact row references the folder id, whatever bulk
\* creates ran beside the delete.
C38_NoContactOfDeletedFolder ==
    \A f \in FolderIds :
        contact_folders[f] = [client_id |-> "none"] => InFolder(f) = {}

\* C39: a file is served on GET only with a signature handed out for
\* operation get of that bucket, key and expiry, so never with one handed out
\* for put; a file is written on PUT only with a signature handed out for put.
IssuedFor(operation, q) ==
    q.signature = hmac_hexdigest(signed_message(operation, q.bucket_type, q.key, q.expires))
C39_SignatureMatchesMethod ==
    \A d \in served :
        /\ d.method = "GET" => IssuedFor("get", d.query)
        /\ d.method = "PUT" => IssuedFor("put", d.query)

====
